---- MODULE Spec2Model ----
(***************************************************************************)
(* Model of the CarbonSight dashboard backend.                             *)
(*                                                                         *)
(*   - MetricsService (metrics_service.py): the in-memory rolling buffer   *)
(*     metrics_history, written by track_request_metrics from the          *)
(*     /api/v1/chat/hybrid handler (main.py) and read by the summary and   *)
(*     comparison queries.                                                 *)
(*   - DatabaseService.get_team_stats (database_service.py and             *)
(*     database_service_production.py): per-team aggregates.               *)
(*   - _calculate_team_efficiency_score (database_service.py and           *)
(*     backup_original/analytics_service.py).                              *)
(*   - DatabaseService.get_team_leaderboard (both variants).               *)
(*                                                                         *)
(* Numbers: Python floats are modelled by exact rationals, written as      *)
(* pairs <<numerator, denominator>> with a positive denominator.           *)
(* Time: datetime values are integers counted in hours from datetime.min.  *)
(***************************************************************************)
EXTENDS Integers, Sequences, FiniteSets, TLC

(***************************************************************************)
(* Bounds of the model.                                                    *)
(***************************************************************************)
\* Scaled stand-in for the literal 1000 of metrics_service.py:104-105.
Capacity == 2
\* track_request_metrics is called at most Capacity + ExtraCalls times.
ExtraCalls == 2
\* Number of request slots of the event loop that can be in flight at once.
NumReqs == 2
\* Clock value at service start, and how often the clock advances.
StartTime == 2
MaxTicks == 1

\* Number of rows the store returns for one team.
MaxRows == 2
\* Number of teams in the teams table.
MaxTeams == 3

\* Number of TeamStats handed to the AnalyticsService, and the largest
\* days_ahead of a forecast.
MaxHistory == 3
MaxHorizon == 2
MaxLogged == 2
\* rows of the usage table of one team
MaxUsage == 3

\* Number of records in the buffer when the latency statistics are computed
\* (below the 1000 of metrics_service.py:104, above the 20 from which the
\* 95th percentile is no longer the maximum).
MaxSamples == 21

MaxCalls == Capacity + ExtraCalls
Reqs == 1..NumReqs
MaxTime == StartTime + MaxTicks

\* datetime.min: the earliest representable datetime (hours from itself).
DatetimeMin == 0

\* Combined model names f"{gemini_model}+{openai_model}" seen by the buffer.
Models == {"m1", "m2"}
\* model argument of get_performance_summary: None / "" (no filter), a model
\* that can be in the buffer, or one that never is.
NoModel == ""
ModelArgs == {NoModel, "m1", "m3"}
\* hours argument (an unvalidated int query parameter, main.py:523):
\* negative (cutoff in the future), zero, one hour back, and so large that
\* now - hours falls before datetime.min.
HoursArgs == {0 - 1, 0, 1, MaxTime + 1}
\* latency_ms reported by the OpenAI call.
Latencies == {100, 200}

VARIABLES
    metrics_history,   \* MetricsService.metrics_history
    calls,             \* number of track_request_metrics calls so far
    now,               \* datetime.now()
    request,           \* the last call made on the MetricsService
    response,          \* what that call returned (or raised)
    pc,                \* pc[r]: position of the hybrid_chat coroutine r
    req,               \* req[r]: locals of the hybrid_chat coroutine r
    overlapped,        \* a record was tracked at capacity while another
                       \* hybrid_chat request was in flight
    team_store,        \* what the store holds about one team
    team_stats,        \* the last get_team_stats result: implementation, TeamStats / None
    score_team,        \* a TeamStats handed to _calculate_team_efficiency_score
    efficiency_score,  \* the last score computed: implementation, score
    board_store,       \* the teams table, with what the store holds for each team
    board_args,        \* arguments of get_team_leaderboard
    leaderboard,       \* the last get_team_leaderboard result: implementation, board / None
    teams_data,        \* the List[TeamStats] handed to the AnalyticsService
    analytics_args,    \* metric and days_ahead of the analytics call
    analytics_result,  \* the last AnalyticsService result: operation, returned dict
    emitter_input,     \* arguments and environment of a generate_content call
    emitter_result,    \* the last generate_content result: provider, returned dict
    ai_requests,       \* the ai_requests table: number of rows, last inserted row
    last_chat,         \* the chat request handled last: endpoint, provider results, effects
    store_fault,       \* what each table of the row store answers: raises, nothing, rows
    store_result,      \* the last DatabaseService call: operation, returned or raised
    usage_rows         \* the rows the store holds for get_model_leaderboard

metricsVars == <<metrics_history, calls, now, request, response, pc, req, overlapped>>
teamVars == <<team_store, team_stats>>
scoreVars == <<score_team, efficiency_score>>
boardVars == <<board_store, board_args, leaderboard>>
analyticsVars == <<teams_data, analytics_args, analytics_result>>
emitterVars == <<emitter_input, emitter_result>>
chatVars == <<ai_requests, last_chat>>
storeVars == <<store_fault, store_result, usage_rows>>

vars == <<metricsVars, teamVars, scoreVars, boardVars, analyticsVars, emitterVars, chatVars,
          storeVars>>

(***************************************************************************)
(* Helpers.                                                                *)
(***************************************************************************)
Min(a, b) == IF a <= b THEN a ELSE b
Max(a, b) == IF a >= b THEN a ELSE b

\* The elements of a sequence, as a set.
Range(s) == {s[i] : i \in 1..Len(s)}

\* [x for x in s if Test(x)]
RECURSIVE SelectRecent(_, _, _)
SelectRecent(s, cutoff, model) ==
    IF s = <<>> THEN <<>>
    ELSE LET m == Head(s)
             keep == m.timestamp >= cutoff /\ (model # NoModel => m.model = model)
         IN  IF keep THEN <<m>> \o SelectRecent(Tail(s), cutoff, model)
             ELSE SelectRecent(Tail(s), cutoff, model)

(***************************************************************************)
(* MetricsService.track_request_metrics                                    *)
(***************************************************************************)
\* h[:n]  (keeps the oldest n: what a wrong slice would do)
KeepFirst(h, n) == IF Len(h) <= n THEN h ELSE SubSeq(h, 1, n)

\* h[-n:] for n > 0
KeepLast(h, n) == IF Len(h) <= n THEN h ELSE SubSeq(h, Len(h) - n + 1, Len(h))

\* Off-by-one eviction: trims to one fewer than the capacity.
TrackedHistoryShort(h, r) ==
    LET a == Append(h, r)
    IN  IF Len(a) > Capacity THEN KeepLast(a, Capacity - 1) ELSE a

\* metrics_history after track_request_metrics appended record r:
\* append, then trim to the last Capacity records when over capacity.
TrackedHistory(h, r) ==
    LET a == Append(h, r)
    IN  IF Len(a) > Capacity THEN KeepLast(a, Capacity) ELSE a

\* The record built by track_request_metrics.  id is the identity of the
\* dict object (the number of the call that created it); the cost, token
\* and efficiency fields do not influence the buffer and are left out.
MetricsRecord(id, model, latency_ms) ==
    [id |-> id, timestamp |-> now, model |-> model, latency_ms |-> latency_ms]

(***************************************************************************)
(* MetricsService.get_performance_summary / get_model_comparison           *)
(***************************************************************************)
\* sorted(xs), ascending
RECURSIVE InsertAsc(_, _)
InsertAsc(x, s) ==
    IF s = <<>> THEN <<x>>
    ELSE IF x < Head(s) THEN <<x>> \o s
    ELSE <<Head(s)>> \o InsertAsc(x, Tail(s))

RECURSIVE SortAsc(_)
SortAsc(s) == IF s = <<>> THEN <<>> ELSE InsertAsc(s[Len(s)], SortAsc(SubSeq(s, 1, Len(s) - 1)))

\* A median that adds the two middle elements and does not halve the sum.
MedianSumOfMiddle(xs) ==
    LET s == SortAsc(xs)
        n == Len(s)
    IN  IF n % 2 = 1 THEN <<s[(n + 1) \div 2], 1>>
        ELSE <<s[n \div 2] + s[(n \div 2) + 1], 1>>

\* statistics.median: the middle element, or the mean of the two middle ones.
Median(xs) ==
    LET s == SortAsc(xs)
        n == Len(s)
    IN  IF n % 2 = 1 THEN <<s[(n + 1) \div 2], 1>>
        ELSE <<s[n \div 2] + s[(n \div 2) + 1], 2>>

\* The nearest-rank percentile: the element of rank ceil(0.95 * n).
P95NearestRank(xs) == SortAsc(xs)[(95 * Len(xs) + 99) \div 100]

\* sorted(latencies)[int(len(latencies) * 0.95)]  (0-based index in Python)
P95(xs) == SortAsc(xs)[((95 * Len(xs)) \div 100) + 1]

\* datetime.now() - timedelta(hours=hours) raises OverflowError when the
\* result is not a representable datetime.
CutoffOverflows(hours) == now - hours < DatetimeMin

CutoffTime(hours) == now - hours

Raised(exc) == [raised |-> exc]
NoData(msg) == [error |-> msg]

\* The value returned (or the exception raised) by get_performance_summary.
\* The fields that echo the arguments (period_hours, model_filter), the
\* generation time and the cost / efficiency / throughput statistics are
\* left out.
PerformanceSummary(h, model, hours) ==
    IF CutoffOverflows(hours) THEN Raised("OverflowError")
    ELSE
      LET recent_metrics == SelectRecent(h, CutoffTime(hours), model)
          latencies == [i \in 1..Len(recent_metrics) |-> recent_metrics[i].latency_ms]
          sorted == SortAsc(latencies)
      IN  IF recent_metrics = <<>>
          THEN NoData("No metrics available for the specified period")
          ELSE [total_requests |-> Len(recent_metrics),
                latency_stats |->
                    [median_ms |-> Median(latencies),
                     min_ms |-> sorted[1],
                     max_ms |-> sorted[Len(sorted)],
                     p95_ms |-> P95(latencies)]]

\* The value returned (or the exception raised) by get_model_comparison.
ModelComparison(h, hours) ==
    IF CutoffOverflows(hours) THEN Raised("OverflowError")
    ELSE
      LET recent_metrics == SelectRecent(h, CutoffTime(hours), NoModel)
          present == {recent_metrics[i].model : i \in 1..Len(recent_metrics)}
      IN  IF recent_metrics = <<>>
          THEN NoData("No metrics available for comparison")
          ELSE [model_comparison |->
                    [m \in present |->
                        [request_count |-> Len(SelectRecent(recent_metrics, CutoffTime(hours), m))]]]

\* One direct call of track_request_metrics (no await inside: it runs to
\* completion on the event loop).
track_request_metrics(model, latency_ms) ==
    /\ calls < MaxCalls
    /\ metrics_history' =
          TrackedHistory(metrics_history, MetricsRecord(calls + 1, model, latency_ms))
    /\ calls' = calls + 1
    /\ request' = [op |-> "track", at |-> now]
    /\ response' = MetricsRecord(calls + 1, model, latency_ms)
    /\ UNCHANGED <<now, pc, req, overlapped, teamVars, scoreVars, boardVars, analyticsVars, emitterVars, chatVars, storeVars>>

\* A summary query that also drops the records outside the window.
get_performance_summary_pruning(model, hours) ==
    /\ request' = [op |-> "summary", model |-> model, hours |-> hours, at |-> now]
    /\ response' = PerformanceSummary(metrics_history, model, hours)
    /\ metrics_history' =
          IF CutoffOverflows(hours) THEN metrics_history
          ELSE SelectRecent(metrics_history, CutoffTime(hours), NoModel)
    /\ UNCHANGED <<calls, now, pc, req, overlapped, teamVars, scoreVars, boardVars, analyticsVars, emitterVars, chatVars, storeVars>>

\* GET /api/v1/metrics/performance
get_performance_summary(model, hours) ==
    /\ request' = [op |-> "summary", model |-> model, hours |-> hours, at |-> now]
    /\ response' = PerformanceSummary(metrics_history, model, hours)
    /\ UNCHANGED <<metrics_history, calls, now, pc, req, overlapped, teamVars, scoreVars, boardVars, analyticsVars, emitterVars, chatVars, storeVars>>

\* GET /api/v1/metrics/model-comparison
get_model_comparison(hours) ==
    /\ request' = [op |-> "comparison", hours |-> hours, at |-> now]
    /\ response' = ModelComparison(metrics_history, hours)
    /\ UNCHANGED <<metrics_history, calls, now, pc, req, overlapped, teamVars, scoreVars, boardVars, analyticsVars, emitterVars, chatVars, storeVars>>

Tick ==
    /\ now < MaxTime
    /\ now' = now + 1
    /\ UNCHANGED <<metrics_history, calls, request, response, pc, req, overlapped, teamVars, scoreVars, boardVars, analyticsVars, emitterVars, chatVars, storeVars>>

(***************************************************************************)
(* hybrid_chat (main.py).  The coroutine suspends only inside              *)
(* openai_service.generate_content (asyncio.to_thread); the Gemini call    *)
(* and everything after the OpenAI call run without yielding to the loop.  *)
(***************************************************************************)
InFlight == Cardinality({r \in Reqs : pc[r] = "openai"})

IdleLocals == [model |-> NoModel, gemini_ok |-> FALSE]

\* Request arrives; Gemini is called and the OpenAI call is handed to a thread.
hybrid_chat_begin(r, model, gemini_ok) ==
    /\ pc[r] = "idle"
    /\ calls + InFlight < MaxCalls
    /\ pc' = [pc EXCEPT ![r] = "openai"]
    /\ req' = [req EXCEPT ![r] = [model |-> model, gemini_ok |-> gemini_ok]]
    /\ UNCHANGED <<metrics_history, calls, now, request, response, overlapped, teamVars, scoreVars, boardVars, analyticsVars, emitterVars, chatVars, storeVars>>

\* The ai_requests table as the number of rows inserted and the last row.
\* db.log_ai_request: the insert either adds the row or raises, and then the
\* operation returns False and the table is as before.
LogAiRequest(table, row, store_ok) ==
    IF store_ok THEN [count |-> table.count + 1, last |-> <<row>>] ELSE table

\* The OpenAI call returns; on success of both calls the metrics are tracked
\* and the request is logged to the store, then the handler returns.
hybrid_chat_resume(r, openai_ok, latency_ms, store_ok) ==
    /\ pc[r] = "openai"
    /\ IF req[r].gemini_ok /\ openai_ok
       THEN /\ metrics_history' =
                 TrackedHistory(metrics_history,
                                MetricsRecord(calls + 1, req[r].model, latency_ms))
            /\ calls' = calls + 1
            /\ overlapped' = (overlapped \/ (InFlight > 1 /\ Len(metrics_history) = Capacity))
            /\ ai_requests' =
                 LogAiRequest(ai_requests,
                              [model_used |-> req[r].model, latency_ms |-> latency_ms],
                              store_ok)
       ELSE UNCHANGED <<metrics_history, calls, overlapped, ai_requests>>
    /\ pc' = [pc EXCEPT ![r] = "idle"]
    /\ req' = [req EXCEPT ![r] = IdleLocals]
    /\ UNCHANGED <<now, request, response, teamVars, scoreVars, boardVars, analyticsVars, emitterVars, last_chat, storeVars>>

(***************************************************************************)
(* Rationals: <<n, d>> with d > 0 stands for the float n / d.              *)
(***************************************************************************)
FracEq(a, b) == a[1] * b[2] = b[1] * a[2]
FracLE(a, b) == a[1] * b[2] <= b[1] * a[2]
FracAdd(a, b) == <<a[1] * b[2] + b[1] * a[2], a[2] * b[2]>>
\* a / k for an integer k > 0
FracDivInt(a, k) == <<a[1], a[2] * k>>
FracMin(a, b) == IF FracLE(a, b) THEN a ELSE b
Zero == <<0, 1>>
One == <<1, 1>>

(***************************************************************************)
(* Rows of the store.  A column of a row dict is <<>> when the key is      *)
(* missing and <<v>> when it holds the number v.  One row shape serves     *)
(* both tables: energy_usage (database_service.py: energy =                *)
(* energy_saved_kwh, co2 = co2_saved_grams, cost = cost_savings_usd,       *)
(* tokens = green_tokens_earned, latency = latency_ms) and ai_requests     *)
(* (database_service_production.py: energy = energy_wh, co2 = co2e_g,      *)
(* cost = cost_usd, latency = latency_ms; no tokens column is read).       *)
(***************************************************************************)
Opt(S) == {<<>>} \cup {<<v>> : v \in S}

Rows == [energy : Opt({100, 200}), co2 : {<<50>>, <<150>>}, cost : Opt({2}),
         latency : Opt({0, 100}), tokens : {<<3>>}]

RowSeqs == UNION {[1..n -> Rows] : n \in 0..MaxRows}

\* record.get(key, default)
Get(row, key, default) == IF row[key] = <<>> THEN default ELSE row[key][1]

\* sum(record.get(key, 0) for record in rows)
RECURSIVE SumColumn(_, _)
SumColumn(rows, key) ==
    IF rows = <<>> THEN 0
    ELSE Get(Head(rows), key, 0) + SumColumn(Tail(rows), key)

\* [record.get("latency_ms", 0) for record in rows if record.get("latency_ms")]
\* (a latency of 0 is falsy and is filtered out like a missing one)
RECURSIVE TruthyLatencies(_)
TruthyLatencies(rows) ==
    IF rows = <<>> THEN <<>>
    ELSE LET v == Get(Head(rows), "latency", 0)
         IN  IF v # 0 THEN <<v>> \o TruthyLatencies(Tail(rows))
             ELSE TruthyLatencies(Tail(rows))

RECURSIVE SumSeq(_)
SumSeq(xs) == IF xs = <<>> THEN 0 ELSE Head(xs) + SumSeq(Tail(xs))

None == [none |-> TRUE]
IsNone(x) == "none" \in DOMAIN x

(***************************************************************************)
(* DatabaseService.get_team_stats (database_service.py)                    *)
(***************************************************************************)
\* found: the teams query returned the team; member_count: len of the users
\* query; rows: the energy_usage rows of the period.
TeamStatsMock(found, member_count, rows) ==
    IF ~found THEN None
    ELSE LET latencies == TruthyLatencies(rows)
         IN  [member_count |-> member_count,
              total_co2_saved_grams |-> SumColumn(rows, "co2"),
              total_energy_saved_kwh |-> <<SumColumn(rows, "energy"), 1>>,
              cost_savings_usd |-> SumColumn(rows, "cost"),
              green_tokens_earned |-> <<SumColumn(rows, "tokens"), 1>>,
              avg_latency_this_week_ms |->
                  IF latencies # <<>> THEN <<SumSeq(latencies), Len(latencies)>> ELSE Zero]

(***************************************************************************)
(* DatabaseService.get_team_stats (database_service_production.py)         *)
(***************************************************************************)
\* The energy total without the conversion from Wh to kWh.
TotalEnergyKwhUnconverted(rows) == <<SumColumn(rows, "energy"), 1>>

\* sum(req.get('energy_wh', 0) for req in requests_data) / 1000
TotalEnergyKwh(rows) == <<SumColumn(rows, "energy"), 1000>>

\* found: the teams query returned the team; member_count: the team row's
\* member_count column (<<>> when missing); rows: the ai_requests rows.
TeamStatsProduction(found, member_count, rows) ==
    IF ~found THEN None
    ELSE [member_count |-> IF member_count = <<>> THEN 1 ELSE member_count[1],
          total_co2_saved_grams |-> SumColumn(rows, "co2"),
          total_energy_saved_kwh |-> TotalEnergyKwh(rows),
          cost_savings_usd |-> SumColumn(rows, "cost"),
          green_tokens_earned |-> <<SumColumn(rows, "co2"), 10>>,
          avg_latency_this_week_ms |->
              IF rows # <<>> THEN <<SumColumn(rows, "latency"), Len(rows)>> ELSE Zero]

MemberCounts == {0, 2}

\* The store's contents for one team: whether the teams table has it, the
\* number of its users rows, its member_count column and its request rows.
TeamStores ==
    {[found |-> FALSE, users |-> 0, member_count |-> <<>>, rows |-> <<>>]}
    \cup [found : {TRUE}, users : MemberCounts, member_count : Opt({2}), rows : RowSeqs]

(***************************************************************************)
(* Failures of the row store.  Every query of a table answers in one of    *)
(* three ways: it raises, it returns no rows (data is empty, count is      *)
(* None), or it returns the rows the store holds.  The body of an          *)
(* operation either returns a value or lets the exception of a query       *)
(* through; the except clause of the operation turns that into the         *)
(* operation's fallback value.                                             *)
(***************************************************************************)
Outcomes == {"raises", "nothing", "rows"}

\* requests is the table of request rows: energy_usage in
\* database_service.py, ai_requests in database_service_production.py.
StoreFaults ==
    [teams : Outcomes, users : Outcomes, requests : Outcomes, model_usage : Outcomes]

NoFault ==
    [teams |-> "rows", users |-> "rows", requests |-> "rows", model_usage |-> "rows"]

Returned(v) == [value |-> v]

HasRaised(r) == "raised" \in DOMAIN r

\* An operation without its except clause: the exception reaches the caller.
ExceptPropagating(body, fallback) == body

\* try: body / except Exception: return fallback
Except(body, fallback) == IF HasRaised(body) THEN Returned(fallback) ELSE body

\* DatabaseService.get_team_stats (database_service.py) on a faulty store
GetTeamStatsMock(fault, store) ==
    Except(IF fault.teams = "raises" THEN Raised("teams")
           ELSE IF fault.teams = "nothing" THEN Returned(None)
           ELSE IF fault.users = "raises" THEN Raised("users")
           ELSE IF fault.requests = "raises" THEN Raised("energy_usage")
           ELSE Returned(TeamStatsMock(store.found,
                                       IF fault.users = "nothing" THEN 0 ELSE store.users,
                                       IF fault.requests = "nothing" THEN <<>>
                                       ELSE store.rows)),
           None)

\* DatabaseService.get_team_stats (database_service_production.py) on a
\* faulty store
GetTeamStatsProduction(fault, store) ==
    Except(IF fault.teams = "raises" THEN Raised("teams")
           ELSE IF fault.teams = "nothing" THEN Returned(None)
           ELSE IF fault.requests = "raises" THEN Raised("ai_requests")
           ELSE Returned(TeamStatsProduction(store.found, store.member_count,
                                             IF fault.requests = "nothing" THEN <<>>
                                             ELSE store.rows)),
           None)

\* The record of a call in store_result: the operation, the module that
\* implements it, whether an exception reached the caller, and the value
\* returned.
StoreCall(op, impl, result) ==
    [op |-> op, impl |-> impl, raised |-> HasRaised(result),
     value |-> IF HasRaised(result) THEN None ELSE result.value]

get_team_stats ==
    LET result == GetTeamStatsMock(store_fault, team_store)
    IN  /\ team_stats' = [impl |-> "database_service",
                          stats |-> IF HasRaised(result) THEN None ELSE result.value]
        /\ store_result' = StoreCall("get_team_stats", "database_service", result)
        /\ UNCHANGED <<metricsVars, team_store, scoreVars, boardVars, analyticsVars,
                       emitterVars, chatVars, store_fault, usage_rows>>

get_team_stats_production ==
    LET result == GetTeamStatsProduction(store_fault, team_store)
    IN  /\ team_stats' = [impl |-> "database_service_production",
                          stats |-> IF HasRaised(result) THEN None ELSE result.value]
        /\ store_result' = StoreCall("get_team_stats", "database_service_production", result)
        /\ UNCHANGED <<metricsVars, team_store, scoreVars, boardVars, analyticsVars,
                       emitterVars, chatVars, store_fault, usage_rows>>

(***************************************************************************)
(* _calculate_team_efficiency_score                                        *)
(***************************************************************************)
\* DatabaseService._calculate_team_efficiency_score (database_service.py)
TeamEfficiencyScoreDb(team) ==
    IF team.total_energy_saved_kwh[1] = 0 THEN Zero
    ELSE LET m == Max(1, team.member_count)
             energy_efficiency == FracDivInt(team.total_energy_saved_kwh, m)
             co2_efficiency == FracDivInt(<<team.total_co2_saved_grams, 1>>, m)
             token_efficiency == FracDivInt(team.green_tokens_earned, m)
         IN  FracDivInt(FracAdd(FracAdd(energy_efficiency, co2_efficiency), token_efficiency), 3)

\* AnalyticsService._calculate_team_efficiency_score (analytics_service.py)
TeamEfficiencyScoreAnalytics(team) ==
    IF team.member_count = 0 THEN Zero
    ELSE LET m == team.member_count
             energy_per_member == FracDivInt(team.total_energy_saved_kwh, m)
             co2_per_member == FracDivInt(<<team.total_co2_saved_grams, 1>>, m)
             tokens_per_member == FracDivInt(team.green_tokens_earned, m)
             efficiency == FracDivInt(FracAdd(FracAdd(energy_per_member, co2_per_member),
                                              tokens_per_member), 3)
         IN  FracMin(One, FracDivInt(efficiency, 100))

\* TeamStats values handed to the score: totals of a non-empty record set.
Totals == {0, 3, 300}
ScoreInputs ==
    [member_count : 0..2, total_co2_saved_grams : Totals,
     total_energy_saved_kwh : {<<t, 1>> : t \in Totals},
     green_tokens_earned : {<<t, 1>> : t \in Totals}]

\* The score that get_team_leaderboard puts into a leaderboard entry.
calculate_team_efficiency_score_db ==
    /\ efficiency_score' = [impl |-> "database_service",
                            score |-> TeamEfficiencyScoreDb(score_team)]
    /\ UNCHANGED <<metricsVars, teamVars, score_team, boardVars, analyticsVars, emitterVars, chatVars, storeVars>>

\* The score that generate_visualization_data puts into a chart.
calculate_team_efficiency_score_analytics ==
    /\ efficiency_score' = [impl |-> "analytics_service",
                            score |-> TeamEfficiencyScoreAnalytics(score_team)]
    /\ UNCHANGED <<metricsVars, teamVars, score_team, boardVars, analyticsVars, emitterVars, chatVars, storeVars>>

(***************************************************************************)
(* get_team_leaderboard                                                    *)
(***************************************************************************)
\* An insertion that puts index k before the indices of equal key: the order
\* of ties is reversed.
RECURSIVE InsertBeforeTies(_, _, _)
InsertBeforeTies(k, order, keys) ==
    IF order = <<>> THEN <<k>>
    ELSE IF FracLE(keys[Head(order)], keys[k]) THEN <<k>> \o order
    ELSE <<Head(order)>> \o InsertBeforeTies(k, Tail(order), keys)

\* list.sort(key=..., reverse=True) on a list with the given keys: the
\* indices of the list in sorted order.  The sort is stable, and reverse=True
\* keeps the original order of elements with equal keys.
\* Index k goes before the first index that holds a strictly smaller key.
RECURSIVE InsertByKey(_, _, _)
InsertByKey(k, order, keys) ==
    IF order = <<>> THEN <<k>>
    ELSE IF ~FracLE(keys[k], keys[Head(order)]) THEN <<k>> \o order
    ELSE <<Head(order)>> \o InsertByKey(k, Tail(order), keys)

RECURSIVE SortedOrderUpTo(_, _)
SortedOrderUpTo(n, keys) ==
    IF n = 0 THEN <<>> ELSE InsertByKey(n, SortedOrderUpTo(n - 1, keys), keys)

SortedOrder(keys) == SortedOrderUpTo(Len(keys), keys)

\* xs[:limit]
SliceTo(xs, limit) ==
    IF limit >= 0 THEN SubSeq(xs, 1, Min(limit, Len(xs)))
    ELSE SubSeq(xs, 1, Max(0, Len(xs) + limit))

\* DatabaseService._get_team_badge (database_service.py)
TeamBadge(score) ==
    IF FracLE(<<8, 10>>, score) THEN "Gold"
    ELSE IF FracLE(<<6, 10>>, score) THEN "Silver"
    ELSE IF FracLE(<<4, 10>>, score) THEN "Bronze"
    ELSE "Green"

\* Badge by position in database_service_production.py (i is 1-based here).
PositionBadge(i) ==
    IF i = 1 THEN "Gold" ELSE IF i = 2 THEN "Silver" ELSE IF i = 3 THEN "Bronze" ELSE "NoBadge"

\* Rank of an entry in the list: i + 1 for the 0-based enumerate index i,
\* which is the 1-based position.
RankZeroBased(position) == position - 1

RankOf(position) == position

\* The teams of the store in table order.  The team at index i has team_id
\* and team_name i (distinct teams carry distinct ids and names).
\* First loop of database_service.py: the indices of the teams for which
\* get_team_stats returned a TeamStats, in table order.
RECURSIVE TeamsWithStats(_, _)
TeamsWithStats(store, n) ==
    IF n = 0 THEN <<>>
    ELSE IF store[n].stats_ok THEN Append(TeamsWithStats(store, n - 1), n)
    ELSE TeamsWithStats(store, n - 1)

\* Second loop of database_service.py: ranks are assigned in list order, and
\* current_team_rank is re-read on every iteration.
RECURSIVE RankLoop(_, _, _)
RankLoop(names, i, current_team_rank) ==
    IF i > Len(names) THEN current_team_rank
    ELSE RankLoop(names, i + 1, IF names[i] = current_team_rank THEN i ELSE current_team_rank)

\* DatabaseService.get_team_leaderboard (database_service.py)
TeamLeaderboardMock(store, current_team_id) ==
    LET with == TeamsWithStats(store, Len(store))
        stats(t) == TeamStatsMock(TRUE, store[t].users, store[t].rows)
        values == [j \in 1..Len(with) |-> TeamEfficiencyScoreDb(stats(with[j]))]
        position == {j \in 1..Len(with) : with[j] = current_team_id}
        rank_before_sort == IF position = {} THEN 1 ELSE CHOOSE j \in position : TRUE
        order == SortedOrder(values)
        names == [i \in 1..Len(order) |-> with[order[i]]]
    IN  [teams |-> [i \in 1..Len(order) |->
                      [rank |-> RankOf(i),
                       name |-> names[i],
                       value |-> values[order[i]],
                       secondary_value |-> stats(names[i]).total_co2_saved_grams,
                       badge |-> TeamBadge(values[order[i]])]],
         current_team_rank |-> RankLoop(names, 1, rank_before_sort),
         total_teams |-> Len(with)]

\* DatabaseService.get_team_leaderboard (database_service_production.py)
TeamLeaderboardProduction(store, current_team_id, limit) ==
    LET co2(t) == SumColumn(store[t].rows, "co2")
        values == [t \in 1..Len(store) |->
                      <<co2(t) * 1000, SumColumn(store[t].rows, "energy") + 1000>>]
        order == SliceTo(SortedOrder(values), limit)
        position == {i \in 1..Len(order) : order[i] = current_team_id}
    IN  [teams |-> [i \in 1..Len(order) |->
                      [rank |-> RankOf(i),
                       name |-> order[i],
                       value |-> values[order[i]],
                       secondary_value |-> co2(order[i]),
                       badge |-> PositionBadge(i)]],
         current_team_rank |-> IF position = {} THEN 1 ELSE CHOOSE i \in position : TRUE,
         total_teams |-> Len(store)]

RowA == [energy |-> <<100>>, co2 |-> <<50>>, cost |-> <<2>>, latency |-> <<100>>, tokens |-> <<3>>]
RowB == [energy |-> <<200>>, co2 |-> <<150>>, cost |-> <<2>>, latency |-> <<100>>, tokens |-> <<3>>]

\* What the store holds for one team of the teams table: whether
\* get_team_stats yields a TeamStats for it, its users and its rows.
TeamChoices == [stats_ok : BOOLEAN, users : {2}, rows : {<<>>, <<RowA>>, <<RowA, RowB>>}]

BoardStores == UNION {[1..n -> TeamChoices] : n \in 0..MaxTeams}

\* current_team_id: 0 is an id that no team has.
BoardArgs == [current_team_id : 0..MaxTeams, limit : (0 - 1)..(MaxTeams + 1)]

\* What the loop of get_team_leaderboard (database_service.py) sees of each
\* team: the nested get_team_stats call returns None when one of its queries
\* raises, and counts no users or no rows when the query returns nothing.
NestedTeamStats(fault, store) ==
    [t \in DOMAIN store |->
        [stats_ok |-> store[t].stats_ok /\ fault.users # "raises"
                          /\ fault.requests # "raises",
         users |-> IF fault.users = "nothing" THEN 0 ELSE store[t].users,
         rows |-> IF fault.requests = "nothing" THEN <<>> ELSE store[t].rows]]

\* DatabaseService.get_team_leaderboard (database_service.py) on a faulty
\* store
GetTeamLeaderboardMock(fault, store, current_team_id) ==
    Except(IF fault.teams = "raises" THEN Raised("teams")
           ELSE IF fault.teams = "nothing"
                THEN Returned(TeamLeaderboardMock(<<>>, current_team_id))
           ELSE Returned(TeamLeaderboardMock(NestedTeamStats(fault, store),
                                             current_team_id)),
           None)

\* DatabaseService.get_team_leaderboard (database_service_production.py) on
\* a faulty store: the rows of each team are queried inside the loop.
GetTeamLeaderboardProduction(fault, store, current_team_id, limit) ==
    Except(IF fault.teams = "raises" THEN Raised("teams")
           ELSE IF fault.teams = "nothing"
                THEN Returned(TeamLeaderboardProduction(<<>>, current_team_id, limit))
           ELSE IF store # <<>> /\ fault.requests = "raises" THEN Raised("ai_requests")
           ELSE Returned(TeamLeaderboardProduction(
                             [t \in DOMAIN store |->
                                 [store[t] EXCEPT !.rows = IF fault.requests = "nothing"
                                                           THEN <<>> ELSE @]],
                             current_team_id, limit)),
           None)

get_team_leaderboard ==
    LET result == GetTeamLeaderboardMock(store_fault, board_store,
                                         board_args.current_team_id)
    IN  /\ leaderboard' = [impl |-> "database_service",
                           board |-> IF HasRaised(result) THEN None ELSE result.value]
        /\ store_result' = StoreCall("get_team_leaderboard", "database_service", result)
        /\ UNCHANGED <<metricsVars, teamVars, scoreVars, board_store, board_args,
                       analyticsVars, emitterVars, chatVars, store_fault, usage_rows>>

get_team_leaderboard_production ==
    LET result == GetTeamLeaderboardProduction(store_fault, board_store,
                                               board_args.current_team_id,
                                               board_args.limit)
    IN  /\ leaderboard' = [impl |-> "database_service_production",
                           board |-> IF HasRaised(result) THEN None ELSE result.value]
        /\ store_result' = StoreCall("get_team_leaderboard", "database_service_production", result)
        /\ UNCHANGED <<metricsVars, teamVars, scoreVars, board_store, board_args,
                       analyticsVars, emitterVars, chatVars, store_fault, usage_rows>>

(***************************************************************************)
(* AnalyticsService (analytics_service_production.py).  Arithmetic on      *)
(* rationals in lowest terms; math.sqrt is computed to a fixed number of   *)
(* decimal digits.                                                         *)
(***************************************************************************)
Abs(a) == IF a < 0 THEN 0 - a ELSE a

RECURSIVE GCD(_, _)
GCD(a, b) == IF b = 0 THEN a ELSE GCD(b, a % b)

\* The same rational in lowest terms.
FracNorm(a) ==
    LET g == GCD(Abs(a[1]), a[2])
    IN  IF a[1] = 0 THEN Zero ELSE <<a[1] \div g, a[2] \div g>>

FracPlus(a, b) == FracNorm(FracAdd(a, b))
FracMinus(a, b) == FracNorm(<<a[1] * b[2] - b[1] * a[2], a[2] * b[2]>>)
\* a * b, with the common factors cancelled before multiplying
FracTimes(a, b) ==
    LET g1 == IF a[1] = 0 THEN b[2] ELSE GCD(Abs(a[1]), b[2])
        g2 == IF b[1] = 0 THEN a[2] ELSE GCD(Abs(b[1]), a[2])
    IN  FracNorm(<<(a[1] \div g1) * (b[1] \div g2), (a[2] \div g2) * (b[2] \div g1)>>)
\* a / b for b # 0
FracOver(a, b) ==
    IF b[1] > 0 THEN FracTimes(a, <<b[2], b[1]>>)
    ELSE FracTimes(a, <<0 - b[2], 0 - b[1]>>)
FracOfInt(k) == <<k, 1>>
\* max(0, a)
FracMaxZero(a) == IF a[1] < 0 THEN Zero ELSE a

RECURSIVE FracSum(_)
FracSum(xs) == IF xs = <<>> THEN Zero ELSE FracPlus(Head(xs), FracSum(Tail(xs)))

\* The largest k in lo..hi with k * k <= v (46340 is the largest integer
\* whose square is a 32-bit integer).
RECURSIVE ISqrtBetween(_, _, _)
ISqrtBetween(v, lo, hi) ==
    IF lo >= hi THEN lo
    ELSE LET mid == (lo + hi + 1) \div 2
         IN  IF mid * mid <= v THEN ISqrtBetween(v, mid, hi)
             ELSE ISqrtBetween(v, lo, mid - 1)

\* Decimal precision of math.sqrt in the model: results are multiples of
\* 1 / SqrtScale.
SqrtScale == 100

\* math.sqrt(a) for a >= 0
Sqrt(a) ==
    LET v == (a[1] * SqrtScale * SqrtScale) \div a[2]
    IN  FracNorm(<<ISqrtBetween(v, 0, Min(v, 46340)), SqrtScale>>)

\* AnalyticsService._linear_regression: <<slope, intercept>>
LinearRegression(x_values, y_values) ==
    LET n == Len(x_values)
        sum_x == SumSeq(x_values)
        sum_y == SumSeq(y_values)
        sum_xy == SumSeq([i \in 1..n |-> x_values[i] * y_values[i]])
        sum_x2 == SumSeq([i \in 1..n |-> x_values[i] * x_values[i]])
        slope == FracNorm(<<n * sum_xy - sum_x * sum_y, n * sum_x2 - sum_x * sum_x>>)
        intercept == FracOver(FracMinus(FracOfInt(sum_y), FracTimes(slope, FracOfInt(sum_x))),
                              FracOfInt(n))
    IN  IF n < 2 THEN <<Zero, Zero>> ELSE <<slope, intercept>>

\* n * sum_x2 - sum_x * sum_x, the divisor of the slope
RegressionDenominator(x_values) ==
    Len(x_values) * SumSeq([i \in 1..Len(x_values) |-> x_values[i] * x_values[i]])
        - SumSeq(x_values) * SumSeq(x_values)

\* A call of _linear_regression: the pair it returns, or the
\* ZeroDivisionError of the slope's division.
LinearRegressionCall(x_values, y_values) ==
    IF Len(x_values) >= 2 /\ RegressionDenominator(x_values) = 0
    THEN Raised("ZeroDivisionError")
    ELSE Returned(LinearRegression(x_values, y_values))

\* The value of the metric for one team, as generate_forecast extracts it.
ForecastMetricValue(team, metric) ==
    IF metric = "co2_saved" THEN team.total_co2_saved_grams
    ELSE IF metric = "energy_saved" THEN team.total_energy_saved_kwh
    ELSE 0

Failure(msg) == [error |-> msg, success |-> FALSE]

\* The forecast without the clamp of negative predictions.
ForecastValueUnclamped(slope, intercept, future_x) ==
    FracPlus(FracTimes(slope, FracOfInt(future_x)), intercept)

\* max(0, slope * future_x + intercept)
ForecastValue(slope, intercept, future_x) ==
    FracMaxZero(FracPlus(FracTimes(slope, FracOfInt(future_x)), intercept))

\* A successful forecast without values, returned for a history that is too
\* short.
InsufficientDataAsEmptyForecast ==
    [forecast_values |-> <<>>, confidence_intervals |-> <<>>, success |-> TRUE]

\* if n < 2: return {"error": "Insufficient data for forecasting", ...}
InsufficientData == Failure("Insufficient data for forecasting")

\* AnalyticsService.generate_forecast: the dict it returns.  An exception
\* inside the try block becomes the "Forecast generation failed" result.
GenerateForecast(teams, metric, days_ahead) ==
    LET historical_values == [i \in 1..Len(teams) |-> ForecastMetricValue(teams[i], metric)]
        n == Len(historical_values)
        x_values == [i \in 1..n |-> i - 1]
        y_values == historical_values
        reg == LinearRegression(x_values, y_values)
        slope == reg[1]
        intercept == reg[2]
        \* range(days_ahead) is empty for days_ahead <= 0
        horizon == Max(0, days_ahead)
        forecast_values ==
            [k \in 1..horizon |-> ForecastValue(slope, intercept, n + (k - 1))]
        residuals ==
            [i \in 1..n |->
                FracMinus(FracOfInt(y_values[i]),
                          FracPlus(FracTimes(slope, FracOfInt(x_values[i])), intercept))]
        rmse == Sqrt(FracOver(FracSum([i \in 1..n |-> FracTimes(residuals[i], residuals[i])]),
                              FracOfInt(n)))
        sum_x2 == SumSeq([i \in 1..n |-> x_values[i] * x_values[i]])
        margin(k) ==
            FracTimes(FracTimes(<<196, 100>>, rmse),
                      Sqrt(FracPlus(FracPlus(One, <<1, n>>),
                                    <<(n + (k - 1)) * (n + (k - 1)), sum_x2>>)))
        confidence_intervals ==
            [k \in 1..horizon |->
                [lower |-> FracMaxZero(FracMinus(forecast_values[k], margin(k))),
                 upper |-> FracPlus(forecast_values[k], margin(k))]]
        mean == FracNorm(<<SumSeq(historical_values), n>>)
    IN  IF teams = <<>> THEN Failure("No team data available for forecasting")
        ELSE IF n < 2 THEN InsufficientData
        \* rmse / statistics.mean(historical_values) raises ZeroDivisionError
        ELSE IF mean[1] = 0 THEN Failure("Forecast generation failed")
        ELSE [metric |-> metric,
              days_ahead |-> days_ahead,
              forecast_values |-> forecast_values,
              confidence_intervals |-> confidence_intervals,
              trend_slope |-> slope,
              trend_intercept |-> intercept,
              rmse |-> rmse,
              accuracy_score |-> FracMaxZero(FracMinus(One, FracOver(rmse, mean))),
              success |-> TRUE]

\* The metrics perform_hypothesis_testing knows by name.
HypothesisMetrics == {"co2_saved", "energy_saved", "efficiency"}

\* Does extracting the metric of this team raise?  (ZeroDivisionError in
\* total_co2_saved_grams / (total_energy_saved_kwh + 1))
HypothesisValueRaises(team, metric) ==
    metric = "efficiency" /\ team.total_energy_saved_kwh + 1 = 0

\* The value of the metric for one team, as perform_hypothesis_testing
\* extracts it.
HypothesisMetricValue(team, metric) ==
    IF metric = "co2_saved" THEN FracOfInt(team.total_co2_saved_grams)
    ELSE IF metric = "energy_saved" THEN FracOfInt(team.total_energy_saved_kwh)
    ELSE IF metric = "efficiency"
         THEN FracNorm(<<team.total_co2_saved_grams * (IF team.total_energy_saved_kwh + 1 < 0 THEN 0 - 1 ELSE 1),
                         Abs(team.total_energy_saved_kwh + 1)>>)
    ELSE Zero

\* if len(teams_data) < 2: return the error result
MinTeamsForTesting == 2

\* AnalyticsService.perform_hypothesis_testing: the dict it returns.  The
\* t statistic, the p value and the median are left out; computing them
\* raises nothing once the values are extracted.
PerformHypothesisTesting(teams, metric) ==
    LET n == Len(teams)
        values == [i \in 1..n |-> HypothesisMetricValue(teams[i], metric)]
        mean_val == FracOver(FracSum(values), FracOfInt(n))
        squares == [i \in 1..n |->
                       FracTimes(FracMinus(values[i], mean_val), FracMinus(values[i], mean_val))]
        std_val == Sqrt(FracOver(FracSum(squares), FracOfInt(n - 1)))
    IN  IF n < MinTeamsForTesting
        THEN Failure("Need at least 2 teams for hypothesis testing")
        ELSE IF \E i \in 1..n : HypothesisValueRaises(teams[i], metric)
        THEN Failure("Hypothesis testing failed")
        ELSE [test_type |-> "one_sample_t_test",
              metric |-> metric,
              sample_size |-> n,
              mean |-> mean_val,
              std_dev |-> std_val,
              success |-> TRUE]

\* A TeamStats as the analytics service reads it: the CO2 and energy totals.
AnalyticsTeams == [total_co2_saved_grams : 0..2, total_energy_saved_kwh : {0 - 1, 0, 2}]

TeamsDataInputs == UNION {[1..n -> AnalyticsTeams] : n \in 0..MaxHistory}

\* metric: the three known names and one that is not known; days_ahead: an
\* unvalidated int (negative, zero, positive).
AnalyticsArgs ==
    [metric : HypothesisMetrics \cup {"other"}, days_ahead : {0 - 1, 0, MaxHorizon}]

perform_hypothesis_testing ==
    /\ analytics_result' = [op |-> "perform_hypothesis_testing",
                            result |-> PerformHypothesisTesting(teams_data, analytics_args.metric)]
    /\ UNCHANGED <<metricsVars, teamVars, scoreVars, boardVars, teams_data, analytics_args, emitterVars, chatVars, storeVars>>

generate_forecast ==
    /\ analytics_result' = [op |-> "generate_forecast",
                            result |-> GenerateForecast(teams_data, analytics_args.metric,
                                                        analytics_args.days_ahead)]
    /\ UNCHANGED <<metricsVars, teamVars, scoreVars, boardVars, teams_data, analytics_args, emitterVars, chatVars, storeVars>>

\* The x values of a call of _linear_regression on n points: range(n), as
\* generate_forecast passes them, the same points in decreasing order, and
\* n identical values.
XInputs(n) ==
    {[i \in 1..n |-> i - 1], [i \in 1..n |-> n - i]} \cup {[i \in 1..n |-> c] : c \in 0..1}

\* _linear_regression on the drawn history as the y values.
linear_regression(x_values) ==
    /\ analytics_result' =
           [op |-> "_linear_regression",
            result |-> [x_values |-> x_values,
                        outcome |-> LinearRegressionCall(
                                        x_values,
                                        [i \in 1..Len(teams_data) |->
                                            ForecastMetricValue(teams_data[i],
                                                                analytics_args.metric)])]]
    /\ UNCHANGED <<metricsVars, teamVars, scoreVars, boardVars, teams_data, analytics_args, emitterVars, chatVars, storeVars>>

(***************************************************************************)
(* GeminiService.generate_content (gemini_service.py).  A prompt is its    *)
(* number of words and of characters; the upstream call either raises or   *)
(* returns a text of some number of words.  The response text and the      *)
(* processing time are left out of the results.                            *)
(***************************************************************************)
\* GeminiService.model_energy_profiles (four of the seven entries)
ModelEnergyProfiles ==
    [m \in {"auto", "gemini-2.5-flash", "gemini-2.5-flash-lite", "gemini-1.5-flash", "gemini-1.5-pro"} |->
        [energy_wh_per_1k_tokens |->
             IF m \in {"auto", "gemini-2.5-flash-lite"} THEN <<3, 100>>
             ELSE IF m = "gemini-2.5-flash" THEN <<5, 100>>
             ELSE IF m = "gemini-1.5-flash" THEN <<15, 100>>
             ELSE <<25, 100>>,
         co2_g_per_1k_tokens |->
             IF m \in {"auto", "gemini-2.5-flash-lite"} THEN <<2, 100>>
             ELSE IF m = "gemini-2.5-flash" THEN <<3, 100>>
             ELSE IF m = "gemini-1.5-flash" THEN <<8, 100>>
             ELSE <<10, 100>>,
         region |-> "us-central1"]]

\* self.model_energy_profiles.get(model, self.model_energy_profiles[default])
EnergyProfile(model, default) ==
    IF model \in DOMAIN ModelEnergyProfiles THEN ModelEnergyProfiles[model]
    ELSE ModelEnergyProfiles[default]

\* if model == "auto": model = "gemini-2.5-flash-lite"
ActualModel(model) == IF model = "auto" THEN "gemini-2.5-flash-lite" ELSE model

\* int(len(text.split()) * 1.3)
EstimatedTokens(words) == (13 * words) \div 10

\* 1 + (cpu_percent / 100) * 0.3 + (memory_percent / 100) * 0.2
SystemEnergyFactor(cpu_percent, memory_percent) ==
    FracNorm(<<1000 + 3 * cpu_percent + 2 * memory_percent, 1000>>)

ModelEfficiency(model) ==
    IF model = "gemini-1.5-flash" THEN One
    ELSE IF model = "gemini-1.5-pro" THEN <<7, 10>>
    ELSE IF model = "gemini-2.0-flash" THEN <<12, 10>>
    ELSE One

\* 1.1 if 2 <= current_hour <= 6 else 1.0
TimeEfficiency(current_hour) ==
    IF 2 <= current_hour /\ current_hour <= 6 THEN <<11, 10>> ELSE One

\* 1 + (len(prompt) / 1000) * 0.1
ComplexityFactor(chars) == FracNorm(<<10000 + chars, 10000>>)

RegionalCarbonIntensity(region) ==
    IF region = "us-central1" THEN One
    ELSE IF region = "us-west1" THEN <<11, 10>>
    ELSE IF region = "europe-west1" THEN <<8, 10>>
    ELSE One

\* The regions the profiles and the regional dict name, and one that neither
\* names.
Regions == {"us-central1", "us-west1", "europe-west1", "unknown"}

\* The final calculations with the regional factor on the energy as well.
SustainabilityEstimateRegionOnEnergy(energy_profile, model, total_tokens, chars, cpu_percent, memory_percent, current_hour) ==
    LET base_energy_wh == FracOver(FracTimes(energy_profile.energy_wh_per_1k_tokens,
                                             FracOfInt(total_tokens)), FracOfInt(1000))
        base_co2_grams == FracOver(FracTimes(energy_profile.co2_g_per_1k_tokens,
                                             FracOfInt(total_tokens)), FracOfInt(1000))
        factors == FracTimes(FracTimes(FracTimes(FracTimes(
                                 SystemEnergyFactor(cpu_percent, memory_percent),
                                 ModelEfficiency(model)),
                             TimeEfficiency(current_hour)),
                             ComplexityFactor(chars)),
                             RegionalCarbonIntensity(energy_profile.region))
    IN  <<FracTimes(base_energy_wh, factors), FracTimes(base_co2_grams, factors)>>

\* The sustainability formulas of generate_content over the profile it
\* looked up: <<energy_wh, co2_grams>>.
SustainabilityEstimate(energy_profile, model, total_tokens, chars, cpu_percent, memory_percent, current_hour) ==
    LET base_energy_wh == FracOver(FracTimes(energy_profile.energy_wh_per_1k_tokens,
                                             FracOfInt(total_tokens)), FracOfInt(1000))
        base_co2_grams == FracOver(FracTimes(energy_profile.co2_g_per_1k_tokens,
                                             FracOfInt(total_tokens)), FracOfInt(1000))
        factors == FracTimes(FracTimes(FracTimes(SystemEnergyFactor(cpu_percent, memory_percent),
                                                 ModelEfficiency(model)),
                                       TimeEfficiency(current_hour)),
                             ComplexityFactor(chars))
    IN  <<FracTimes(base_energy_wh, factors),
          FracTimes(FracTimes(base_co2_grams, factors),
                    RegionalCarbonIntensity(energy_profile.region))>>

\* The estimate of the real-call path: <<energy_wh, co2_grams>>.
EnergyEstimate(model, total_tokens, chars, cpu_percent, memory_percent, current_hour) ==
    SustainabilityEstimate(EnergyProfile(model, "gemini-1.5-flash"), model, total_tokens,
                           chars, cpu_percent, memory_percent, current_hour)

\* len(demo_response): the default demo response has 45 characters.
DemoResponseChars == 45

\* GeminiService._generate_demo_response
GenerateDemoResponse(prompt, model) ==
    LET actual == ActualModel(model)
        model_profile == EnergyProfile(actual, "gemini-2.5-flash")
        input_tokens == prompt.chars \div 4
        output_tokens == DemoResponseChars \div 4
        total_tokens == input_tokens + output_tokens
    IN  [success |-> TRUE,
         model_used |-> model,
         actual_model |-> actual,
         energy_kwh |-> FracOver(FracTimes(model_profile.energy_wh_per_1k_tokens,
                                           FracOfInt(total_tokens)), FracOfInt(1000)),
         co2_grams |-> FracOver(FracTimes(model_profile.co2_g_per_1k_tokens,
                                          FracOfInt(total_tokens)), FracOfInt(1000)),
         region |-> "us-central1",
         tokens_used |-> [input |-> input_tokens, output |-> output_tokens,
                          total |-> total_tokens]]

\* The result of the except branch with a non-zero energy estimate left in.
GeminiFailureResultNonZero(model, msg) ==
    [success |-> FALSE,
     error |-> msg,
     model_used |-> model,
     energy_kwh |-> <<1, 1000>>,
     co2_grams |-> Zero,
     region |-> "unknown",
     tokens_used |-> [input |-> 0, output |-> 0, total |-> 0]]

\* The result of the except branch of GeminiService.generate_content.
GeminiFailureResult(model, msg) ==
    [success |-> FALSE,
     error |-> msg,
     model_used |-> model,
     energy_kwh |-> Zero,
     co2_grams |-> Zero,
     region |-> "unknown",
     tokens_used |-> [input |-> 0, output |-> 0, total |-> 0]]

\* GeminiService.generate_content: the dict it returns.
GeminiGenerateContent(in) ==
    LET model == ActualModel(in.model)
        input_tokens == EstimatedTokens(in.prompt.words)
        output_tokens == EstimatedTokens(in.upstream.words)
        total_tokens == input_tokens + output_tokens
        estimate == EnergyEstimate(model, total_tokens, in.prompt.chars,
                                   in.cpu_percent, in.memory_percent, in.hour)
    IN  IF ~in.api_key_available THEN GenerateDemoResponse(in.prompt, model)
        ELSE IF ~in.upstream.ok THEN GeminiFailureResult(model, "upstream error")
        ELSE [success |-> TRUE,
              model_used |-> in.model,
              actual_model |-> model,
              energy_kwh |-> FracOver(estimate[1], FracOfInt(1000)),
              co2_grams |-> estimate[2],
              region |-> EnergyProfile(model, "gemini-1.5-flash").region,
              tokens_used |-> [input |-> input_tokens, output |-> output_tokens,
                               total |-> total_tokens]]

\* ((baseline - actual) / baseline * 100) if baseline > 0 else 0
SavedPercent(baseline, actual) ==
    IF ~FracLE(baseline, Zero)
    THEN FracTimes(FracOver(FracMinus(baseline, actual), baseline), FracOfInt(100))
    ELSE Zero

\* The savings without the clamp at zero.
CalculateEnergySavingsUnclamped(baseline_model, actual_model, tokens) ==
    LET baseline_profile == EnergyProfile(baseline_model, "gemini-1.5-flash")
        actual_profile == EnergyProfile(actual_model, "gemini-1.5-flash")
        PerTokens(v) == FracOver(FracTimes(v, FracOfInt(tokens)), FracOfInt(1000))
    IN  [energy_saved_wh |-> FracMinus(PerTokens(baseline_profile.energy_wh_per_1k_tokens),
                                       PerTokens(actual_profile.energy_wh_per_1k_tokens)),
         co2_saved_grams |-> FracMinus(PerTokens(baseline_profile.co2_g_per_1k_tokens),
                                       PerTokens(actual_profile.co2_g_per_1k_tokens)),
         energy_saved_percent |->
             SavedPercent(PerTokens(baseline_profile.energy_wh_per_1k_tokens),
                          PerTokens(actual_profile.energy_wh_per_1k_tokens)),
         co2_saved_percent |->
             SavedPercent(PerTokens(baseline_profile.co2_g_per_1k_tokens),
                          PerTokens(actual_profile.co2_g_per_1k_tokens))]

\* GeminiService.calculate_energy_savings: the two saved amounts.
CalculateEnergySavings(baseline_model, actual_model, tokens) ==
    LET baseline_profile == EnergyProfile(baseline_model, "gemini-1.5-flash")
        actual_profile == EnergyProfile(actual_model, "gemini-1.5-flash")
        PerTokens(v) == FracOver(FracTimes(v, FracOfInt(tokens)), FracOfInt(1000))
    IN  [energy_saved_wh |->
             FracMaxZero(FracMinus(PerTokens(baseline_profile.energy_wh_per_1k_tokens),
                                   PerTokens(actual_profile.energy_wh_per_1k_tokens))),
         co2_saved_grams |->
             FracMaxZero(FracMinus(PerTokens(baseline_profile.co2_g_per_1k_tokens),
                                   PerTokens(actual_profile.co2_g_per_1k_tokens))),
         energy_saved_percent |->
             SavedPercent(PerTokens(baseline_profile.energy_wh_per_1k_tokens),
                          PerTokens(actual_profile.energy_wh_per_1k_tokens)),
         co2_saved_percent |->
             SavedPercent(PerTokens(baseline_profile.co2_g_per_1k_tokens),
                          PerTokens(actual_profile.co2_g_per_1k_tokens))]

(***************************************************************************)
(* OpenAIService.generate_content (openai_service.py).  Costs are dollars  *)
(* as fractions; the usage the API reports is part of the upstream answer. *)
(***************************************************************************)
\* OpenAIService.model_configs: prices per 1k tokens
ModelConfigs ==
    [m \in {"gpt-3.5-turbo", "gpt-4", "gpt-4o"} |->
        [input_cost |-> IF m = "gpt-3.5-turbo" THEN <<5, 10000>>
                        ELSE IF m = "gpt-4" THEN <<3, 100>> ELSE <<5, 1000>>,
         output_cost |-> IF m = "gpt-3.5-turbo" THEN <<15, 10000>>
                         ELSE IF m = "gpt-4" THEN <<6, 100>> ELSE <<15, 1000>>]]

\* round(x, 6) for x >= 0: the nearest multiple of 10^-6, ties to even
Round6(x) ==
    LET scaled == FracTimes(x, FracOfInt(1000000))
        q == scaled[1] \div scaled[2]
        twice == 2 * (scaled[1] % scaled[2])
        up == twice > scaled[2] \/ (twice = scaled[2] /\ q % 2 = 1)
    IN  FracNorm(<<IF up THEN q + 1 ELSE q, 1000000>>)

\* OpenAIService.calculate_cost
CalculateCost(input_tokens, output_tokens, model) ==
    IF model \notin DOMAIN ModelConfigs
    THEN [input_cost |-> Zero, output_cost |-> Zero, total_cost |-> Zero]
    ELSE LET input_cost == FracTimes(<<input_tokens, 1000>>, ModelConfigs[model].input_cost)
             output_cost == FracTimes(<<output_tokens, 1000>>, ModelConfigs[model].output_cost)
         IN  [input_cost |-> Round6(input_cost),
              output_cost |-> Round6(output_cost),
              total_cost |-> Round6(FracPlus(input_cost, output_cost))]

\* The result of the except branch of OpenAIService.generate_content.
OpenAIFailureResult(model, msg) ==
    [success |-> FALSE,
     error |-> msg,
     model_used |-> model,
     cost_usd |-> Zero,
     input_tokens |-> 0,
     output_tokens |-> 0,
     total_tokens |-> 0,
     input_cost_usd |-> Zero,
     output_cost_usd |-> Zero]

\* OpenAIService.generate_content: the dict it returns.
OpenAIGenerateContent(in) ==
    LET model == in.openai_model
        input_tokens == in.prompt.words
        output_tokens == in.upstream.words
        cost_breakdown == CalculateCost(input_tokens, output_tokens, model)
    IN  IF model \notin DOMAIN ModelConfigs
        THEN OpenAIFailureResult(model, "Unsupported model")
        ELSE IF ~in.upstream.ok THEN OpenAIFailureResult(model, "upstream error")
        ELSE [success |-> TRUE,
              model_used |-> model,
              cost_usd |-> Round6(cost_breakdown.total_cost),
              input_tokens |-> input_tokens,
              output_tokens |-> output_tokens,
              total_tokens |-> input_tokens + output_tokens,
              input_cost_usd |-> Round6(cost_breakdown.input_cost),
              output_cost_usd |-> Round6(cost_breakdown.output_cost)]

(***************************************************************************)
(* The calls of the two providers as actions over one drawn request.       *)
(***************************************************************************)
GeminiModelArgs == {"auto", "gemini-1.5-flash", "gemini-1.5-pro", "gemini-2.0-flash"}
OpenAIModelArgs == {"gpt-3.5-turbo", "gpt-4", "gpt-5"}
Prompts == {[words |-> 0, chars |-> 0], [words |-> 1000, chars |-> 5000]}
Upstreams == {[ok |-> FALSE, words |-> 0], [ok |-> TRUE, words |-> 0],
              [ok |-> TRUE, words |-> 2000]}
LoadSamples == {0, 100}
Hours == {1, 2, 5, 6, 7}
BaselineModels == {"auto", "gemini-1.5-pro"}

EmitterInputs ==
    [model : GeminiModelArgs, openai_model : OpenAIModelArgs, prompt : Prompts,
     upstream : Upstreams, api_key_available : BOOLEAN,
     baseline_model : BaselineModels,
     cpu_percent : LoadSamples, memory_percent : LoadSamples, hour : Hours]

\* No request has been drawn.
NoEmitterInput == <<>>

NoEmitterResult == <<>>

NoEmitter == emitter_input = NoEmitterInput /\ emitter_result = NoEmitterResult

NoAiRequests == [count |-> 0, last |-> <<>>]

NoChat == ai_requests = NoAiRequests /\ last_chat = <<>>

gemini_generate_content ==
    /\ emitter_input \in EmitterInputs
    /\ emitter_result = NoEmitterResult
    /\ emitter_result' = <<"gemini", GeminiGenerateContent(emitter_input)>>
    /\ UNCHANGED <<metricsVars, teamVars, scoreVars, boardVars, analyticsVars,
                   emitter_input, chatVars, storeVars>>

openai_generate_content ==
    /\ emitter_input \in EmitterInputs
    /\ emitter_result = NoEmitterResult
    /\ emitter_result' = <<"openai", OpenAIGenerateContent(emitter_input)>>
    /\ UNCHANGED <<metricsVars, teamVars, scoreVars, boardVars, analyticsVars,
                   emitter_input, chatVars, storeVars>>

\* The sustainability formulas of generate_content (lines 155-193) on the
\* drawn request, over the profile of its model with the given region.  Every
\* profile of the table carries "us-central1"; the other regions exercise the
\* lookup in the regional dict and its default.
sustainability_formulas(region) ==
    /\ emitter_input \in EmitterInputs
    /\ emitter_result = NoEmitterResult
    /\ emitter_input.api_key_available
    /\ emitter_input.upstream.ok
    /\ LET model == ActualModel(emitter_input.model)
           energy_profile == [EnergyProfile(model, "gemini-1.5-flash")
                                  EXCEPT !.region = region]
           estimate == SustainabilityEstimate(
                           energy_profile, model,
                           EstimatedTokens(emitter_input.prompt.words)
                               + EstimatedTokens(emitter_input.upstream.words),
                           emitter_input.prompt.chars, emitter_input.cpu_percent,
                           emitter_input.memory_percent, emitter_input.hour)
       IN  emitter_result' = <<"estimate", [region |-> region,
                                            energy_wh |-> estimate[1],
                                            co2_grams |-> estimate[2]]>>
    /\ UNCHANGED <<metricsVars, teamVars, scoreVars, boardVars, analyticsVars,
                   emitter_input, chatVars, storeVars>>

calculate_energy_savings ==
    /\ emitter_input \in EmitterInputs
    /\ emitter_result = NoEmitterResult
    /\ emitter_result' = <<"savings",
                           CalculateEnergySavings(emitter_input.baseline_model,
                                                  ActualModel(emitter_input.model),
                                                  EstimatedTokens(emitter_input.upstream.words))>>
    /\ UNCHANGED <<metricsVars, teamVars, scoreVars, boardVars, analyticsVars,
                   emitter_input, chatVars, storeVars>>

(***************************************************************************)
(* The chat endpoints of main.py over the two providers.  last_chat holds  *)
(* what the last request of /api/v1/chat or /api/v1/models/test-all did:   *)
(* the models whose result had success, the number of upstream calls per   *)
(* model, and the numbers of track_request_metrics and log_ai_request      *)
(* calls.                                                                  *)
(***************************************************************************)
\* list(self.model_energy_profiles.keys()), in the order of the dict
AllModels ==
    <<"auto", "gemini-2.5-flash", "gemini-2.5-flash-lite", "gemini-1.5-flash",
      "gemini-1.5-pro">>

\* GeminiService.test_all_models: the result of every model; the upstream
\* call for model m answers iff m \in ok_models.
TestAllResults(in, ok_models) ==
    [i \in DOMAIN AllModels |->
        IF ~in.api_key_available
        THEN GenerateDemoResponse(in.prompt, AllModels[i])
        ELSE GeminiGenerateContent(
                 [in EXCEPT !.model = AllModels[i],
                            !.upstream = IF AllModels[i] \in ok_models
                                         THEN [ok |-> TRUE, words |-> in.upstream.words]
                                         ELSE [ok |-> FALSE, words |-> 0]])]

\* The for loop of test_all_gemini_models: one insert per successful result.
RECURSIVE StoreResults(_, _, _, _)
StoreResults(table, results, i, store_ok) ==
    IF i > Len(results) THEN table
    ELSE StoreResults(
             IF results[i].success
             THEN LogAiRequest(table,
                               [model_used |-> AllModels[i],
                                input_tokens |-> results[i].tokens_used.input,
                                output_tokens |-> results[i].tokens_used.output],
                               store_ok)
             ELSE table,
             results, i + 1, store_ok)

\* request_data.get(key, default)
DictGet(request_data, key, default) ==
    IF key \in DOMAIN request_data THEN request_data[key] ELSE default

\* request_data.get(key): <<>> stands for None
DictGetOrNone(request_data, key) ==
    IF key \in DOMAIN request_data THEN <<request_data[key]>> ELSE <<>>

\* The two DatabaseService implementations a handler can be wired to;
\* main.py imports database_service.
Impls == {"database_service", "database_service_production"}

\* insert_data of log_ai_request (database_service.py): the columns
\* model_used, input_tokens and output_tokens; the row has no energy or CO2
\* column.
InsertDataMock(request_data) ==
    [model_used |-> DictGet(request_data, "model_used", ""),
     input_tokens |-> DictGetOrNone(request_data, "input_tokens"),
     output_tokens |-> DictGetOrNone(request_data, "output_tokens")]

\* insert_data of log_ai_request (database_service_production.py): the
\* columns model_used, energy_wh, co2e_g, tokens_input and tokens_output.
InsertDataProduction(request_data) ==
    [model_used |-> DictGet(request_data, "model_used", "unknown"),
     energy_wh |-> DictGet(request_data, "energy_wh", Zero),
     co2e_g |-> DictGet(request_data, "co2e_g", Zero),
     tokens_input |-> DictGet(request_data, "input_tokens", 0),
     tokens_output |-> DictGet(request_data, "output_tokens", 0)]

InsertData(impl, request_data) ==
    IF impl = "database_service" THEN InsertDataMock(request_data)
    ELSE InsertDataProduction(request_data)

\* The dict real_chat hands to db.log_ai_request, as far as the model's
\* columns go.
ChatRequestData(model, result) ==
    [model_used |-> model,
     energy_kwh |-> result.energy_kwh,
     co2_grams |-> result.co2_grams,
     tokens_input |-> result.tokens_used.input,
     tokens_output |-> result.tokens_used.output]

\* A handler of /api/v1/chat that logs the request whatever its result.
real_chat_logging_failures(impl, store_ok) ==
    LET result == GeminiGenerateContent(emitter_input)
    IN  /\ emitter_input \in EmitterInputs
        /\ ai_requests.count < MaxLogged
        /\ ai_requests' =
               LogAiRequest(ai_requests,
                            InsertData(impl, ChatRequestData(emitter_input.model, result)),
                            store_ok)
        /\ last_chat' =
               <<[endpoint |-> "chat",
                  succeeded |-> IF result.success THEN {emitter_input.model} ELSE {},
                  provider_calls |-> IF emitter_input.api_key_available THEN 1 ELSE 0,
                  tracked |-> 0,
                  logged |-> 1]>>
        /\ UNCHANGED <<metricsVars, teamVars, scoreVars, boardVars, analyticsVars,
                       emitterVars, storeVars>>

\* POST /api/v1/chat, wired to one of the two DatabaseService implementations
real_chat(impl, store_ok) ==
    LET result == GeminiGenerateContent(emitter_input)
    IN  /\ emitter_input \in EmitterInputs
        /\ ai_requests.count < MaxLogged
        /\ ai_requests' =
               IF result.success
               THEN LogAiRequest(ai_requests,
                                 InsertData(impl, ChatRequestData(emitter_input.model, result)),
                                 store_ok)
               ELSE ai_requests
        /\ last_chat' =
               <<[endpoint |-> "chat",
                  succeeded |-> IF result.success THEN {emitter_input.model} ELSE {},
                  provider_calls |-> IF emitter_input.api_key_available THEN 1 ELSE 0,
                  tracked |-> 0,
                  logged |-> IF result.success THEN 1 ELSE 0]>>
        /\ UNCHANGED <<metricsVars, teamVars, scoreVars, boardVars, analyticsVars,
                       emitterVars, storeVars>>

\* POST /api/v1/models/test-all
test_all_gemini_models(ok_models, store_ok) ==
    LET results == TestAllResults(emitter_input, ok_models)
        succeeded == {AllModels[i] : i \in {j \in DOMAIN AllModels : results[j].success}}
    IN  /\ emitter_input \in EmitterInputs
        /\ ai_requests.count < MaxLogged
        /\ ai_requests' = StoreResults(ai_requests, results, 1, store_ok)
        /\ last_chat' =
               <<[endpoint |-> "test-all",
                  succeeded |-> succeeded,
                  provider_calls |-> IF emitter_input.api_key_available THEN 1 ELSE 0,
                  tracked |-> 0,
                  logged |-> Cardinality(succeeded)]>>
        /\ UNCHANGED <<metricsVars, teamVars, scoreVars, boardVars, analyticsVars,
                       emitterVars, storeVars>>

(***************************************************************************)
(* The other DatabaseService operations (database_service.py) on a faulty  *)
(* store.                                                                  *)
(***************************************************************************)
\* Rows of the model_usage table: model_name, energy_kwh, co2_grams and
\* latency_ms, all present.
UsageRows ==
    <<[model_name |-> "m1", energy |-> 0, co2 |-> 5, latency |-> 100],
      [model_name |-> "m2", energy |-> 10, co2 |-> 10, latency |-> 200],
      [model_name |-> "m1", energy |-> 0, co2 |-> 5, latency |-> 200]>>

\* DatabaseService._calculate_efficiency_score
CalculateEfficiencyScore(energy_kwh, co2_grams) ==
    IF energy_kwh = 0 THEN Zero
    ELSE LET base_efficiency == FracOver(One, <<10 * energy_kwh + 1, 10>>)
             co2_factor == FracOver(One, <<10 * co2_grams + 1, 10>>)
         IN  FracMin(One, FracOver(FracPlus(base_efficiency, co2_factor), FracOfInt(2)))

\* The keys of model_stats in insertion order.
RECURSIVE ModelNames(_)
ModelNames(rows) ==
    IF rows = <<>> THEN <<>>
    ELSE LET before == ModelNames(SubSeq(rows, 1, Len(rows) - 1))
             name == rows[Len(rows)].model_name
         IN  IF name \in Range(before) THEN before ELSE Append(before, name)

\* The rows of one model, in table order.
RowsOfModel(rows, name) == SelectSeq(rows, LAMBDA r : r.model_name = name)

RECURSIVE SumField(_, _)
SumField(rows, field) ==
    IF rows = <<>> THEN 0 ELSE Head(rows)[field] + SumField(Tail(rows), field)

\* DatabaseService.get_model_leaderboard (database_service.py): the models
\* sorted by efficiency score and the number of rows.
ModelLeaderboardMock(rows) ==
    LET names == ModelNames(rows)
        stats(name) ==
            LET own == RowsOfModel(rows, name)
            IN  [model_name |-> name,
                 usage_count |-> Len(own),
                 total_energy_kwh |-> SumField(own, "energy"),
                 total_co2_grams |-> SumField(own, "co2"),
                 avg_latency_ms |-> <<SumField(own, "latency"), Len(own)>>,
                 efficiency_score |->
                     CalculateEfficiencyScore(SumField(own, "energy"),
                                              SumField(own, "co2"))]
        values == [i \in 1..Len(names) |-> stats(names[i]).efficiency_score]
        order == SortedOrder(values)
    IN  [models |-> [i \in 1..Len(order) |-> stats(names[order[i]])],
         total_requests |-> Len(rows)]

\* DatabaseService.get_model_leaderboard (database_service.py) on a faulty
\* store; the limit argument is not read.
GetModelLeaderboard(fault, rows) ==
    Except(IF fault.model_usage = "raises" THEN Raised("model_usage")
           ELSE Returned(ModelLeaderboardMock(IF fault.model_usage = "nothing" THEN <<>>
                                              ELSE rows)),
           None)

\* DatabaseService.get_model_leaderboard (database_service_production.py):
\* the rows are ai_requests rows with the energy in Wh; the models sorted by
\* efficiency score are cut to models[:limit].
ModelLeaderboardProduction(rows, limit) ==
    LET names == ModelNames(rows)
        stats(name) ==
            LET own == RowsOfModel(rows, name)
                total_energy == FracNorm(<<SumField(own, "energy"), 1000>>)
            IN  [model_name |-> name,
                 usage_count |-> Len(own),
                 total_energy_kwh |-> total_energy,
                 total_co2_grams |-> SumField(own, "co2"),
                 avg_latency_ms |-> <<SumField(own, "latency"), Len(own)>>,
                 efficiency_score |->
                     FracMin(One, FracOver(FracOfInt(1000), FracPlus(total_energy, One)))]
        values == [i \in 1..Len(names) |-> stats(names[i]).efficiency_score]
        order == SliceTo(SortedOrder(values), limit)
    IN  [models |-> [i \in 1..Len(order) |-> stats(names[order[i]])],
         total_requests |-> Len(rows)]

\* DatabaseService.get_model_leaderboard (database_service_production.py) on
\* a faulty store: response.data or []
GetModelLeaderboardProduction(fault, rows, limit) ==
    Except(IF fault.requests = "raises" THEN Raised("ai_requests")
           ELSE Returned(ModelLeaderboardProduction(
                             IF fault.requests = "nothing" THEN <<>> ELSE rows, limit)),
           None)

\* DatabaseService.log_ai_request on a faulty store: len(response.data) > 0
LogAiRequestReturn(fault) ==
    Except(IF fault.requests = "raises" THEN Raised("ai_requests")
           ELSE Returned(fault.requests = "rows"),
           FALSE)

\* DatabaseService.get_all_teams on a faulty store: response.data or []
GetAllTeams(fault, store) ==
    Except(IF fault.teams = "raises" THEN Raised("teams")
           ELSE Returned(IF fault.teams = "nothing" THEN <<>>
                         ELSE [t \in DOMAIN store |-> t]),
           <<>>)

\* DatabaseService.get_total_requests_count on a faulty store:
\* response.count or 0
GetTotalRequestsCount(fault, table) ==
    Except(IF fault.requests = "raises" THEN Raised("ai_requests")
           ELSE Returned(IF fault.requests = "nothing" THEN 0 ELSE table.count),
           0)

NoStoreCall == [op |-> "none", impl |-> "none", raised |-> FALSE, value |-> None]

NoStore == store_fault = NoFault /\ store_result = NoStoreCall /\ usage_rows = UsageRows

get_model_leaderboard ==
    /\ store_result' = StoreCall("get_model_leaderboard", "database_service",
                                 GetModelLeaderboard(store_fault, usage_rows))
    /\ UNCHANGED <<metricsVars, teamVars, scoreVars, boardVars, analyticsVars,
                   emitterVars, chatVars, store_fault, usage_rows>>

get_model_leaderboard_production ==
    /\ store_result' = StoreCall("get_model_leaderboard", "database_service_production",
                                 GetModelLeaderboardProduction(store_fault, usage_rows,
                                                               board_args.limit))
    /\ UNCHANGED <<metricsVars, teamVars, scoreVars, boardVars, analyticsVars,
                   emitterVars, chatVars, store_fault, usage_rows>>

\* The row logged is one of /api/v1/chat.
log_ai_request ==
    /\ ai_requests.count < MaxLogged
    /\ ai_requests' =
           LogAiRequest(ai_requests,
                        InsertDataMock([model_used |-> "gemini-2.5-flash",
                                        energy_kwh |-> Zero, co2_grams |-> Zero,
                                        tokens_input |-> 0, tokens_output |-> 0]),
                        store_fault.requests = "rows")
    /\ store_result' = StoreCall("log_ai_request", "database_service",
                                 LogAiRequestReturn(store_fault))
    /\ UNCHANGED <<metricsVars, teamVars, scoreVars, boardVars, analyticsVars,
                   emitterVars, last_chat, store_fault, usage_rows>>

get_all_teams ==
    /\ store_result' = StoreCall("get_all_teams", "database_service",
                                 GetAllTeams(store_fault, board_store))
    /\ UNCHANGED <<metricsVars, teamVars, scoreVars, boardVars, analyticsVars,
                   emitterVars, chatVars, store_fault, usage_rows>>

get_total_requests_count ==
    /\ store_result' = StoreCall("get_total_requests_count", "database_service",
                                 GetTotalRequestsCount(store_fault, ai_requests))
    /\ UNCHANGED <<metricsVars, teamVars, scoreVars, boardVars, analyticsVars,
                   emitterVars, chatVars, store_fault, usage_rows>>

(***************************************************************************)
(* Specifications of the metrics service.                                  *)
(***************************************************************************)
Pending == [pending |-> TRUE]

InitMetrics ==
    /\ metrics_history = <<>>
    /\ calls = 0
    /\ now = StartTime
    /\ request = [op |-> "none", at |-> StartTime]
    /\ response = Pending
    /\ pc = [r \in Reqs |-> "idle"]
    /\ req = [r \in Reqs |-> IdleLocals]
    /\ overlapped = FALSE

NoTeamStore == [found |-> FALSE, users |-> 0, member_count |-> <<>>, rows |-> <<>>]
NoScoreTeam ==
    [member_count |-> 0, total_co2_saved_grams |-> 0,
     total_energy_saved_kwh |-> Zero, green_tokens_earned |-> Zero]

InitTeamResults ==
    /\ team_stats = [impl |-> "none", stats |-> None]
    /\ efficiency_score = [impl |-> "none", score |-> Zero]
    /\ leaderboard = [impl |-> "none", board |-> None]

NoBoard ==
    /\ board_store = <<>>
    /\ board_args = [current_team_id |-> 0, limit |-> 0]

NoAnalyticsResult == analytics_result = [op |-> "none", result |-> None]

NoAnalytics ==
    /\ teams_data = <<>>
    /\ analytics_args = [metric |-> "co2_saved", days_ahead |-> 7]
    /\ NoAnalyticsResult
    /\ NoEmitter
    /\ NoChat
    /\ NoStore

Init ==
    /\ InitMetrics
    /\ team_store = NoTeamStore
    /\ score_team = NoScoreTeam
    /\ NoBoard
    /\ InitTeamResults
    /\ NoAnalytics

\* Calls on the MetricsService, one at a time.
Next ==
    \/ \E model \in Models, latency_ms \in Latencies : track_request_metrics(model, latency_ms)
    \/ \E model \in ModelArgs, hours \in HoursArgs : get_performance_summary(model, hours)
    \/ \E hours \in HoursArgs : get_model_comparison(hours)
    \/ Tick

Spec == Init /\ [][Next]_vars

\* The latency the OpenAI result of a hybrid request reports.  The records of
\* concurrent requests differ in id, model and timestamp.
HybridLatencies == {100}

\* Concurrent /api/v1/chat/hybrid requests on the event loop.  The insert of
\* log_ai_request succeeds; its failures are part of SpecChat.
NextHybrid ==
    \/ \E r \in Reqs, model \in Models, gemini_ok \in BOOLEAN :
          hybrid_chat_begin(r, model, gemini_ok)
    \/ \E r \in Reqs, openai_ok \in BOOLEAN, latency_ms \in HybridLatencies :
          hybrid_chat_resume(r, openai_ok, latency_ms, TRUE)
    \/ Tick

SpecHybrid == Init /\ [][NextHybrid]_vars

\* Buffers of n records whose latencies are blocks of 100, 200 and 300 ms, in
\* ascending or descending order; the models alternate.  high and mid are
\* the numbers of 300 ms and 200 ms records.
SampleLatency(n, high, mid, ascending, i) ==
    LET j == IF ascending THEN n + 1 - i ELSE i
    IN  IF j <= high THEN 300 ELSE IF j <= high + mid THEN 200 ELSE 100

SampleHistory(n, high, mid, ascending) ==
    [i \in 1..n |->
        [id |-> i, timestamp |-> StartTime,
         model |-> IF i % 2 = 1 THEN "m1" ELSE "m2",
         latency_ms |-> SampleLatency(n, high, mid, ascending, i)]]

SampleHistories ==
    {SampleHistory(n, high, mid, ascending) :
        n \in 1..MaxSamples, high \in 0..2, mid \in 0..2, ascending \in BOOLEAN}

\* The latency statistics of get_performance_summary over a filled buffer.
InitLatency ==
    /\ metrics_history \in SampleHistories
    /\ calls = Len(metrics_history)
    /\ now = StartTime
    /\ request = [op |-> "none", at |-> StartTime]
    /\ response = Pending
    /\ pc = [r \in Reqs |-> "idle"]
    /\ req = [r \in Reqs |-> IdleLocals]
    /\ overlapped = FALSE
    /\ team_store = NoTeamStore
    /\ score_team = NoScoreTeam
    /\ NoBoard
    /\ InitTeamResults
    /\ NoAnalytics

NextLatency ==
    \/ \E model \in ModelArgs, hours \in HoursArgs : get_performance_summary(model, hours)
    \/ Tick

SpecLatency == InitLatency /\ [][NextLatency]_vars

\* Team aggregation over the rows the store returns.
InitTeam ==
    /\ InitMetrics
    /\ team_store \in TeamStores
    /\ score_team = NoScoreTeam
    /\ NoBoard
    /\ InitTeamResults
    /\ NoAnalytics

NextTeam ==
    \/ get_team_stats
    \/ get_team_stats_production

SpecTeam == InitTeam /\ [][NextTeam]_vars

\* The two team efficiency scores.
InitScore ==
    /\ InitMetrics
    /\ team_store = NoTeamStore
    /\ score_team \in ScoreInputs
    /\ NoBoard
    /\ InitTeamResults
    /\ NoAnalytics

NextScore ==
    \/ calculate_team_efficiency_score_db
    \/ calculate_team_efficiency_score_analytics

SpecScore == InitScore /\ [][NextScore]_vars

\* The team leaderboard over the teams of the store.
InitBoard ==
    /\ InitMetrics
    /\ team_store = NoTeamStore
    /\ score_team = NoScoreTeam
    /\ board_store \in BoardStores
    /\ board_args \in BoardArgs
    /\ InitTeamResults
    /\ NoAnalytics

NextBoard ==
    \/ get_team_leaderboard
    \/ get_team_leaderboard_production

SpecBoard == InitBoard /\ [][NextBoard]_vars

\* The analytics service over the TeamStats it is handed.
InitAnalytics ==
    /\ InitMetrics
    /\ team_store = NoTeamStore
    /\ score_team = NoScoreTeam
    /\ NoBoard
    /\ InitTeamResults
    /\ teams_data \in TeamsDataInputs
    /\ analytics_args \in AnalyticsArgs
    /\ NoAnalyticsResult
    /\ NoEmitter
    /\ NoChat
    /\ NoStore

NextAnalytics ==
    \/ perform_hypothesis_testing
    \/ generate_forecast

SpecAnalytics == InitAnalytics /\ [][NextAnalytics]_vars

(***************************************************************************)
(* _linear_regression on its own, over histories under the two metrics     *)
(* generate_forecast reads.                                                *)
(***************************************************************************)
InitRegression ==
    /\ InitMetrics
    /\ team_store = NoTeamStore
    /\ score_team = NoScoreTeam
    /\ NoBoard
    /\ InitTeamResults
    /\ teams_data \in TeamsDataInputs
    /\ analytics_args \in [metric : {"co2_saved", "energy_saved"}, days_ahead : {0}]
    /\ NoAnalyticsResult
    /\ NoEmitter
    /\ NoChat
    /\ NoStore

NextRegression ==
    \E x_values \in XInputs(Len(teams_data)) : linear_regression(x_values)

SpecRegression == InitRegression /\ [][NextRegression]_vars

(***************************************************************************)
(* The providers' calls on every drawn request.                            *)
(***************************************************************************)
InitEmitter ==
    /\ InitMetrics
    /\ team_store = NoTeamStore
    /\ score_team = NoScoreTeam
    /\ NoBoard
    /\ InitTeamResults
    /\ teams_data = <<>>
    /\ analytics_args = [metric |-> "co2_saved", days_ahead |-> 7]
    /\ NoAnalyticsResult
    /\ emitter_input \in EmitterInputs
    /\ emitter_result = NoEmitterResult
    /\ NoChat
    /\ NoStore

NextEmitter ==
    \/ gemini_generate_content
    \/ openai_generate_content
    \/ calculate_energy_savings
    \/ \E region \in Regions : sustainability_formulas(region)

SpecEmitter == InitEmitter /\ [][NextEmitter]_vars

(***************************************************************************)
(* Requests to the three chat endpoints, one at a time.                    *)
(***************************************************************************)
ChatInputs ==
    {in \in EmitterInputs :
        /\ in.model \in {"auto", "gemini-1.5-pro"}
        /\ in.openai_model = "gpt-4"
        /\ in.prompt.words > 0
        /\ in.upstream.words # 0 \/ ~in.upstream.ok
        /\ in.baseline_model = "auto"
        /\ in.cpu_percent = 0 /\ in.memory_percent = 0 /\ in.hour = 1}

OkModelSets == {{}, {"auto"}, {"gemini-2.5-flash", "gemini-1.5-pro"}, Range(AllModels)}

InitChat ==
    /\ InitMetrics
    /\ team_store = NoTeamStore
    /\ score_team = NoScoreTeam
    /\ NoBoard
    /\ InitTeamResults
    /\ teams_data = <<>>
    /\ analytics_args = [metric |-> "co2_saved", days_ahead |-> 7]
    /\ NoAnalyticsResult
    /\ emitter_input \in ChatInputs
    /\ emitter_result = NoEmitterResult
    /\ NoChat
    /\ NoStore

NextChat ==
    \/ \E impl \in Impls, store_ok \in BOOLEAN : real_chat(impl, store_ok)
    \/ \E ok_models \in OkModelSets, store_ok \in BOOLEAN :
          test_all_gemini_models(ok_models, store_ok)
    \/ \E gemini_ok \in BOOLEAN : hybrid_chat_begin(1, "m1", gemini_ok)
    \/ \E openai_ok \in BOOLEAN, store_ok \in BOOLEAN :
          hybrid_chat_resume(1, openai_ok, 100, store_ok)

SpecChat == InitChat /\ [][NextChat]_vars

(***************************************************************************)
(* The DatabaseService operations on every combination of failing tables.  *)
(***************************************************************************)
FaultyTeamStore ==
    [found |-> TRUE, users |-> 2, member_count |-> <<2>>, rows |-> <<RowA, RowB>>]

FaultyBoardStores ==
    {<<>>,
     <<[stats_ok |-> TRUE, users |-> 2, rows |-> <<RowA>>],
       [stats_ok |-> TRUE, users |-> 2, rows |-> <<RowA, RowB>>]>>}

InitStore ==
    /\ InitMetrics
    /\ team_store = FaultyTeamStore
    /\ score_team = NoScoreTeam
    /\ board_store \in FaultyBoardStores
    /\ board_args = [current_team_id |-> 1, limit |-> 2]
    /\ InitTeamResults
    /\ teams_data = <<>>
    /\ analytics_args = [metric |-> "co2_saved", days_ahead |-> 7]
    /\ NoAnalyticsResult
    /\ NoEmitter
    /\ NoChat
    /\ store_fault \in StoreFaults
    /\ store_result = NoStoreCall
    /\ usage_rows = UsageRows

NextStore ==
    \/ get_team_stats
    \/ get_team_stats_production
    \/ get_model_leaderboard
    \/ get_team_leaderboard
    \/ get_team_leaderboard_production
    \/ log_ai_request
    \/ get_all_teams
    \/ get_total_requests_count

SpecStore == InitStore /\ [][NextStore]_vars

(***************************************************************************)
(* get_model_leaderboard of both implementations on every drawn table and  *)
(* limit.                                                                  *)
(***************************************************************************)
\* Rows of the usage table: three models, with and without energy.
UsageRowChoices ==
    [model_name : {"m1", "m2", "m3"}, energy : {0, 10}, co2 : {5}, latency : {100}]

UsageTables == UNION {[1..n -> UsageRowChoices] : n \in 0..MaxUsage}

InitUsage ==
    /\ InitMetrics
    /\ team_store = NoTeamStore
    /\ score_team = NoScoreTeam
    /\ board_store = <<>>
    /\ board_args \in [current_team_id : {0}, limit : (0 - 1)..MaxUsage]
    /\ InitTeamResults
    /\ teams_data = <<>>
    /\ analytics_args = [metric |-> "co2_saved", days_ahead |-> 7]
    /\ NoAnalyticsResult
    /\ NoEmitter
    /\ NoChat
    /\ store_fault = NoFault
    /\ store_result = NoStoreCall
    /\ usage_rows \in UsageTables

NextUsage ==
    \/ get_model_leaderboard
    \/ get_model_leaderboard_production

SpecUsage == InitUsage /\ [][NextUsage]_vars

(***************************************************************************)
(* Properties of the rolling buffer.                                       *)
(***************************************************************************)
Quiescent == \A r \in Reqs : pc[r] = "idle"

\* Does buffered record m pass the window and model filters of query q?
PassesFilters(m, q) ==
    /\ m.timestamp >= q.at - q.hours
    /\ (q.model # NoModel => m.model = q.model)

Passing(q) == {i \in 1..Len(metrics_history) : PassesFilters(metrics_history[i], q)}

\* C1: after k track_request_metrics calls metrics_history holds exactly
\* min(k, capacity) records, and they are the most recently recorded ones in
\* insertion order (the records of calls k - len + 1 .. k): eviction is FIFO.
C1_BufferHoldsMostRecent ==
    /\ Len(metrics_history) = Min(calls, Capacity)
    /\ \A i \in 1..Len(metrics_history) :
          metrics_history[i].id = calls - Len(metrics_history) + i

\* More calls than the capacity were made, so records have been evicted.
C1_Witness ==
    /\ calls > Capacity + 1
    /\ request.op = "track"
    /\ Len(metrics_history) = Capacity

\* C2: with several hybrid_chat requests in flight, once all calls have
\* finished every record that belongs to the most recent ones (up to the
\* capacity) is in metrics_history exactly once, and nothing else is
\* there: no interleaving loses, duplicates or corrupts an entry.
C2_NoLostOrDuplicatedRecord ==
    Quiescent =>
        /\ \A k \in Max(1, calls - Capacity + 1)..calls :
              Cardinality({i \in 1..Len(metrics_history) : metrics_history[i].id = k}) = 1
        /\ \A i \in 1..Len(metrics_history) :
              /\ metrics_history[i].id \in Max(1, calls - Capacity + 1)..calls
              /\ metrics_history[i].model \in Models
              /\ metrics_history[i].latency_ms \in Latencies
              /\ metrics_history[i].timestamp \in StartTime..now

\* All requests finished, after one of them tracked its record at capacity
\* while another was still in flight.
C2_Witness ==
    /\ Quiescent
    /\ overlapped
    /\ calls > Capacity

\* C3 (as claimed): whenever no buffered record passes the window and model
\* filters, get_performance_summary returns the no-data result: an error
\* marker, no statistics, and no exception.
C3_NoDataResultNeverRaises ==
    (request.op = "summary" /\ Passing(request) = {}) =>
        /\ "error" \in DOMAIN response
        /\ "raised" \notin DOMAIN response
        /\ "total_requests" \notin DOMAIN response

\* C4: the summary and comparison queries leave metrics_history unchanged
\* (the records older than the cutoff are only left out of the statistics),
\* and a record leaves the buffer only as the oldest one, evicted by a
\* track_request_metrics call made at capacity.
C4_QueriesLeaveBufferUnchanged ==
    [][ /\ (request'.op \in {"summary", "comparison"} => metrics_history' = metrics_history)
        /\ ((request'.op = "summary" /\ "total_requests" \in DOMAIN response')
              => response'.total_requests
                   = Cardinality({i \in 1..Len(metrics_history') :
                                     PassesFilters(metrics_history'[i], request')}))
        /\ ((/\ metrics_history' # metrics_history
              /\ \E i \in 1..Len(metrics_history) :
                    \A j \in 1..Len(metrics_history') :
                       metrics_history'[j] # metrics_history[i])
              => /\ request'.op = "track"
                 /\ Len(metrics_history) = Capacity
                 /\ metrics_history' = Append(Tail(metrics_history), response'))
      ]_vars

\* A summary was computed while a record older than its cutoff is still in
\* the buffer, and some record did pass.
C4_Witness ==
    /\ request.op = "summary"
    /\ "total_requests" \in DOMAIN response
    /\ \E i \in 1..Len(metrics_history) :
          metrics_history[i].timestamp < request.at - request.hours

(***************************************************************************)
(* Properties of the team aggregates.                                      *)
(***************************************************************************)
\* The sum of a column, counted value by value (a missing value counts 0).
ColumnTotal(rows, key, values) ==
    LET Count(v) == Cardinality({i \in 1..Len(rows) : rows[i][key] = <<v>>})
        RECURSIVE Total(_)
        Total(S) == IF S = {} THEN 0
                    ELSE LET v == CHOOSE x \in S : TRUE
                         IN  v * Count(v) + Total(S \ {v})
    IN  Total(values)

HasTeamStats == team_stats.impl # "none" /\ ~IsNone(team_stats.stats)

\* C5: the team aggregate reports the sum of the rows' CO2 grams, the sum of
\* the rows' cost, and as energy in kWh the sum of the rows' energy: a column
\* in Wh (ai_requests) is divided by 1000, a column already in kWh
\* (energy_usage) is summed as it is; an empty row set gives zero totals.
C5_TeamTotalsAreSums ==
    HasTeamStats =>
        LET rows == team_store.rows
            stats == team_stats.stats
            energy == ColumnTotal(rows, "energy", {100, 200})
        IN  /\ stats.total_co2_saved_grams = ColumnTotal(rows, "co2", {50, 150})
            /\ stats.cost_savings_usd = ColumnTotal(rows, "cost", {2})
            /\ IF team_stats.impl = "database_service_production"
               THEN FracEq(stats.total_energy_saved_kwh, <<energy, 1000>>)
               ELSE FracEq(stats.total_energy_saved_kwh, <<energy, 1>>)
            /\ (rows = <<>> =>
                  /\ stats.total_co2_saved_grams = 0
                  /\ stats.cost_savings_usd = 0
                  /\ stats.total_energy_saved_kwh[1] = 0)

\* The scenario of the spec: rows with 100 Wh / 50 g and 200 Wh / 150 g give
\* 0.3 kWh and 200 g in the production aggregate.
C5_Witness ==
    /\ team_stats.impl = "database_service_production"
    /\ ~IsNone(team_stats.stats)
    /\ Len(team_store.rows) = 2
    /\ team_store.rows[1].energy = <<100>> /\ team_store.rows[1].co2 = <<50>>
    /\ team_store.rows[2].energy = <<200>> /\ team_store.rows[2].co2 = <<150>>
    /\ team_stats.stats.total_energy_saved_kwh = <<300, 1000>>
    /\ team_stats.stats.total_co2_saved_grams = 200

\* C6 (as claimed): the average latency is the mean over only the rows that
\* have a recorded latency, and 0 when no row has one.
C6_AvgLatencyOverRecorded ==
    HasTeamStats =>
        LET rows == team_store.rows
            recorded == {i \in 1..Len(rows) : rows[i].latency # <<>>}
            avg == team_stats.stats.avg_latency_this_week_ms
        IN  IF recorded = {} THEN avg[1] = 0
            ELSE FracEq(avg, <<ColumnTotal(rows, "latency", {0, 100}), Cardinality(recorded)>>)

(***************************************************************************)
(* Properties of the team efficiency score.                                *)
(***************************************************************************)
HasScore == efficiency_score.impl # "none"

\* C7 (as claimed): for a team with member_count = 0 the efficiency score is
\* exactly 0, whatever the totals are.
C7_NoMembersScoreZero ==
    (HasScore /\ score_team.member_count = 0) => efficiency_score.score[1] = 0

\* C8 (as claimed): the efficiency score put into a leaderboard entry or a
\* chart is the average of the three per-member terms (each divided by
\* max(1, member_count)), divided by 100 and clamped to [0, 1].
C8_ScoreNormalisedAndClamped ==
    HasScore =>
        LET m == Max(1, score_team.member_count)
            total == FracAdd(FracAdd(score_team.total_energy_saved_kwh,
                                     <<score_team.total_co2_saved_grams, 1>>),
                             score_team.green_tokens_earned)
            claimed == FracMin(One, FracDivInt(total, 3 * 100 * m))
        IN  /\ FracLE(Zero, efficiency_score.score)
            /\ FracLE(efficiency_score.score, One)
            /\ FracEq(efficiency_score.score, claimed)

(***************************************************************************)
(* Properties of the team leaderboard.                                     *)
(***************************************************************************)
HasBoard == leaderboard.impl # "none" /\ ~IsNone(leaderboard.board)

Entries == leaderboard.board.teams

\* C9: the entries of the leaderboard have non-increasing values from first
\* to last, and their ranks are exactly 1, 2, ..., n in list order: no gap
\* and no repeated rank, also across equal values.
C9_RanksDenseValuesNonIncreasing ==
    HasBoard =>
        /\ \A i \in 1..Len(Entries) : Entries[i].rank = i
        /\ \A i \in 1..Len(Entries) : \A j \in 1..Len(Entries) :
              i < j => FracLE(Entries[j].value, Entries[i].value)

\* At least three entries, of different values, from a store whose table
\* order is not the ranked order.
C9_Witness ==
    /\ HasBoard
    /\ Len(Entries) >= 3
    /\ ~FracEq(Entries[1].value, Entries[3].value)
    /\ \E i \in 1..Len(Entries) : \E j \in 1..Len(Entries) :
          i < j /\ Entries[i].name > Entries[j].name

\* C10: ranking is stable and idempotent: entries of equal value keep their
\* order of the teams table (so n equal-valued entries get ranks 1..n in
\* input order), and ranking the ranked list again gives the same order and
\* the same ranks.
C10_RankingStableIdempotent ==
    HasBoard =>
        LET values == [i \in 1..Len(Entries) |-> Entries[i].value]
            again == SortedOrder(values)
        IN  /\ \A i \in 1..Len(Entries) : \A j \in 1..Len(Entries) :
                  (i < j /\ FracEq(Entries[i].value, Entries[j].value))
                     => Entries[i].name < Entries[j].name
            /\ \A i \in 1..Len(Entries) :
                  /\ again[i] = i
                  /\ RankOf(i) = Entries[i].rank

\* Three entries of the same value, and a board with a tie below a leader.
C10_Witness ==
    /\ HasBoard
    /\ Len(Entries) >= 3
    /\ \E i \in 1..Len(Entries) : \E j \in 1..Len(Entries) :
          i < j /\ FracEq(Entries[i].value, Entries[j].value)

\* C11 (as claimed): the badge of a leaderboard entry is determined by its
\* rank alone: rank 1 is Gold, rank 2 Silver, rank 3 Bronze, every other rank
\* carries no badge; so each of the three badges is carried by at most one
\* entry, whatever the scores are.
C11_BadgeByRankAlone ==
    HasBoard =>
        /\ \A i \in 1..Len(Entries) : Entries[i].badge = PositionBadge(Entries[i].rank)
        /\ \A b \in {"Gold", "Silver", "Bronze"} :
              Cardinality({i \in 1..Len(Entries) : Entries[i].badge = b}) <= 1

(***************************************************************************)
(* Properties of the analytics service.                                    *)
(***************************************************************************)
HasForecast == analytics_result.op = "generate_forecast"
HasHypothesisTest == analytics_result.op = "perform_hypothesis_testing"

\* The history generate_forecast extracted from teams_data.
History ==
    [i \in 1..Len(teams_data) |-> ForecastMetricValue(teams_data[i], analytics_args.metric)]

Horizon == Max(0, analytics_args.days_ahead)

\* C12: generate_forecast on a history of fewer than 2 points returns a
\* structured result with success = false and an error, and without forecast
\* values; nothing is raised to the caller.
C12_ShortHistoryInsufficientData ==
    (HasForecast /\ Len(History) < 2) =>
        /\ analytics_result.result.success = FALSE
        /\ "error" \in DOMAIN analytics_result.result
        /\ "forecast_values" \notin DOMAIN analytics_result.result
        /\ "confidence_intervals" \notin DOMAIN analytics_result.result

\* A forecast was asked for one team with a positive days_ahead.
C12_Witness ==
    /\ HasForecast
    /\ Len(History) = 1
    /\ analytics_args.days_ahead > 0
    /\ analytics_result.result = InsufficientData

\* C13 (as claimed): perform_hypothesis_testing with fewer than 2 teams
\* returns a result with an error and success = false, and with 2 or more
\* teams it returns a result with success = true.
C13_HypothesisTestNeedsTwoTeams ==
    HasHypothesisTest =>
        IF Len(teams_data) < 2
        THEN /\ analytics_result.result.success = FALSE
             /\ "error" \in DOMAIN analytics_result.result
        ELSE analytics_result.result.success = TRUE

\* Is the history y_i = a * i + b for the a and b of its first two points?
IsLinear(h) == \A i \in 1..Len(h) : h[i] = (h[2] - h[1]) * (i - 1) + h[1]

\* The value of the line through the history at 0-based index x.
LineValue(h, x) == (h[2] - h[1]) * x + h[1]

\* C14 (as claimed): for a perfectly linear history of length n >= 2 whose
\* continuation is non-negative, generate_forecast succeeds with rmse = 0,
\* the projected values a * (n + i) + b for i in [0, horizon), and confidence
\* intervals of zero width.
C14_LinearHistoryExactForecast ==
    (/\ HasForecast
     /\ Len(History) >= 2
     /\ IsLinear(History)
     /\ \A k \in 1..Horizon : LineValue(History, Len(History) + k - 1) >= 0) =>
        LET r == analytics_result.result
        IN  /\ r.success = TRUE
            /\ r.rmse = Zero
            /\ Len(r.forecast_values) = Horizon
            /\ \A k \in 1..Horizon :
                  /\ r.forecast_values[k] = FracOfInt(LineValue(History, Len(History) + k - 1))
                  /\ r.confidence_intervals[k].lower = r.forecast_values[k]
                  /\ r.confidence_intervals[k].upper = r.forecast_values[k]

\* C15: for a history of length >= 2 and a horizon h >= 0, a successful
\* generate_forecast returns exactly h projected values and h confidence
\* intervals, every projected value is >= 0, and every interval satisfies
\* 0 <= lower <= projected value <= upper.
C15_ForecastShapeAndBounds ==
    (HasForecast /\ analytics_result.result.success /\ analytics_args.days_ahead >= 0) =>
        LET r == analytics_result.result
            h == analytics_args.days_ahead
        IN  /\ Len(History) >= 2
            /\ Len(r.forecast_values) = h
            /\ Len(r.confidence_intervals) = h
            /\ \A k \in 1..h :
                  /\ FracLE(Zero, r.forecast_values[k])
                  /\ FracLE(Zero, r.confidence_intervals[k].lower)
                  /\ FracLE(r.confidence_intervals[k].lower, r.forecast_values[k])
                  /\ FracLE(r.forecast_values[k], r.confidence_intervals[k].upper)

\* A successful forecast of a falling, not linear history: a projected value
\* was clamped to 0 and its interval has a positive width.
C15_Witness ==
    /\ HasForecast
    /\ analytics_result.result.success
    /\ analytics_args.days_ahead = MaxHorizon
    /\ analytics_result.result.trend_slope[1] < 0
    /\ \E k \in 1..MaxHorizon :
          /\ analytics_result.result.forecast_values[k] = Zero
          /\ analytics_result.result.confidence_intervals[k].upper[1] > 0

(***************************************************************************)
(* Properties of the latency statistics.                                   *)
(***************************************************************************)
\* The latencies of the records that passed the filters of the last summary.
PassingLatencies == {<<i, metrics_history[i].latency_ms>> : i \in Passing(request)}

HasSummary == request.op = "summary" /\ "total_requests" \in DOMAIN response

\* C20: for a non-empty filtered set of n records the p95 latency is the
\* element at 0-based index floor(0.95 * n) of the latencies sorted
\* ascending: at most floor(0.95 * n) latencies lie strictly below it and
\* more than floor(0.95 * n) are at most it; it is one of the latencies (no
\* interpolation), the index is within range, and for n < 20 it is the
\* maximum.
C20_P95IsOrderStatistic ==
    HasSummary =>
        LET n == Cardinality(PassingLatencies)
            index == (95 * n) \div 100
            p95 == response.latency_stats.p95_ms
        IN  /\ n = response.total_requests
            /\ index < n
            /\ \E e \in PassingLatencies : e[2] = p95
            /\ Cardinality({e \in PassingLatencies : e[2] < p95}) <= index
            /\ Cardinality({e \in PassingLatencies : e[2] <= p95}) >= index + 1
            /\ (n < 20 => \A e \in PassingLatencies : e[2] <= p95)

\* A summary over at least 20 records whose p95 is below the maximum.
C20_Witness ==
    /\ HasSummary
    /\ response.total_requests >= 20
    /\ response.latency_stats.p95_ms < response.latency_stats.max_ms

(***************************************************************************)
(* Properties of the providers' calls.                                     *)
(***************************************************************************)
HasEmitterResult(provider) ==
    emitter_result # NoEmitterResult /\ emitter_result[1] = provider

\* The upstream call of the Gemini provider was made and failed.
GeminiUpstreamFailed ==
    emitter_input.api_key_available /\ ~emitter_input.upstream.ok

\* The upstream call of the OpenAI provider was made and failed.
OpenAIUpstreamFailed ==
    emitter_input.openai_model \in DOMAIN ModelConfigs /\ ~emitter_input.upstream.ok

\* C16: when the upstream generation call fails, generate_content of either
\* provider returns a result (it does not raise) with success = false, an
\* error marker and every quantity it carries at zero: the token counts,
\* energy and CO2 for Gemini, the token counts and costs for OpenAI.
C16_FailureIsZeroValuedResult ==
    /\ (HasEmitterResult("gemini") /\ GeminiUpstreamFailed) =>
           LET r == emitter_result[2]
           IN  /\ r.success = FALSE
               /\ "error" \in DOMAIN r
               /\ r.tokens_used = [input |-> 0, output |-> 0, total |-> 0]
               /\ FracEq(r.energy_kwh, Zero)
               /\ FracEq(r.co2_grams, Zero)
    /\ (HasEmitterResult("openai") /\ OpenAIUpstreamFailed) =>
           LET r == emitter_result[2]
           IN  /\ r.success = FALSE
               /\ "error" \in DOMAIN r
               /\ r.input_tokens = 0 /\ r.output_tokens = 0 /\ r.total_tokens = 0
               /\ FracEq(r.cost_usd, Zero)
               /\ FracEq(r.input_cost_usd, Zero)
               /\ FracEq(r.output_cost_usd, Zero)

C16_Witness ==
    /\ HasEmitterResult("gemini")
    /\ GeminiUpstreamFailed
    /\ emitter_input.model = "auto"
    /\ emitter_input.prompt.words > 0
    /\ emitter_result[2].success = FALSE

\* C18: every successful Gemini estimate has energy and CO2 that are not
\* negative, and the saved amounts of calculate_energy_savings are not
\* negative either.
C18_EnergyAndCo2NonNegative ==
    /\ (HasEmitterResult("gemini") /\ emitter_result[2].success) =>
           /\ FracLE(Zero, emitter_result[2].energy_kwh)
           /\ FracLE(Zero, emitter_result[2].co2_grams)
    /\ HasEmitterResult("savings") =>
           /\ FracLE(Zero, emitter_result[2].energy_saved_wh)
           /\ FracLE(Zero, emitter_result[2].co2_saved_grams)

\* The savings of a switch to a more expensive model, clamped at zero.
C18_Witness ==
    /\ HasEmitterResult("savings")
    /\ emitter_input.baseline_model = "auto"
    /\ emitter_input.model = "gemini-1.5-pro"
    /\ emitter_input.upstream.words > 0
    /\ FracEq(emitter_result[2].energy_saved_wh, Zero)
    /\ ~FracLE(Zero, emitter_result[2].energy_saved_percent)

(***************************************************************************)
(* Properties of the chat endpoints.                                       *)
(***************************************************************************)
\* The endpoint of the last /api/v1/chat or test-all request, "" before any.
LastEndpoint == IF last_chat = <<>> THEN "" ELSE last_chat[1].endpoint

Called(op) == store_result.op = op

\* C19: no DatabaseService operation lets a store failure through.  No call
\* raises; a call whose query raises returns the operation's fallback value
\* (None for get_team_stats, get_model_leaderboard and get_team_leaderboard,
\* False for log_ai_request, the empty list for get_all_teams, 0 for
\* get_total_requests_count); and a call whose query returns nothing returns
\* that fallback value or an empty leaderboard.
C19_StoreFailureDegrades ==
    /\ ~store_result.raised
    /\ Called("get_team_stats") =>
           ((store_fault.teams \in {"raises", "nothing"}
                \/ store_fault.requests = "raises"
                \/ (store_result.impl = "database_service"
                       /\ store_fault.users = "raises"))
               => IsNone(store_result.value))
    /\ Called("get_model_leaderboard") =>
           /\ store_fault.model_usage = "raises" => IsNone(store_result.value)
           /\ store_fault.model_usage = "nothing" =>
                  /\ store_result.value.models = <<>>
                  /\ store_result.value.total_requests = 0
    /\ Called("get_team_leaderboard") =>
           /\ store_fault.teams = "raises" => IsNone(store_result.value)
           /\ store_fault.teams = "nothing" => store_result.value.teams = <<>>
    /\ Called("log_ai_request") =>
           (store_fault.requests \in {"raises", "nothing"} => store_result.value = FALSE)
    /\ Called("get_all_teams") =>
           (store_fault.teams \in {"raises", "nothing"} => store_result.value = <<>>)
    /\ Called("get_total_requests_count") =>
           (store_fault.requests \in {"raises", "nothing"} => store_result.value = 0)

\* The insert of log_ai_request raised and the operation returned False.
C19_Witness ==
    /\ Called("log_ai_request")
    /\ store_fault.requests = "raises"
    /\ store_result.value = FALSE
    /\ ~store_result.raised

(***************************************************************************)
(* Properties of the factors of the Gemini estimate.                       *)
(***************************************************************************)
\* generate_content made the upstream call and it returned a text.
GeminiRealCall ==
    /\ HasEmitterResult("gemini")
    /\ emitter_input.api_key_available
    /\ emitter_input.upstream.ok

\* The base energy in Wh and the base CO2 in grams of the drawn request.
BaseOf(field) ==
    LET model == ActualModel(emitter_input.model)
        total_tokens == EstimatedTokens(emitter_input.prompt.words)
                        + EstimatedTokens(emitter_input.upstream.words)
    IN  FracOver(FracTimes(EnergyProfile(model, "gemini-1.5-flash")[field],
                           FracOfInt(total_tokens)), FracOfInt(1000))

\* The factor of the hours 2, 3, 4 and 5.
HalfOpenTimeFactor(h) == IF 2 <= h /\ h < 6 THEN <<11, 10>> ELSE One

\* The product of the load, model and complexity factors of the drawn request.
\* Products are in lowest terms, so equal floats are equal pairs.
OtherFactors ==
    FracTimes(FracTimes(SystemEnergyFactor(emitter_input.cpu_percent,
                                           emitter_input.memory_percent),
                        ModelEfficiency(ActualModel(emitter_input.model))),
              ComplexityFactor(emitter_input.prompt.chars))

\* C21: the time-of-day factor in the energy of a real call is 1.1 exactly
\* for the hours 2 <= h < 6 and 1.0 for every other hour, hour 6 included.
C21_TimeFactorHalfOpen ==
    GeminiRealCall =>
        FracTimes(emitter_result[2].energy_kwh, FracOfInt(1000))
            = FracTimes(FracTimes(BaseOf("energy_wh_per_1k_tokens"), OtherFactors),
                        HalfOpenTimeFactor(emitter_input.hour))

\* The product of the four factors that energy and CO2 share.
FourFactors == FracTimes(OtherFactors, TimeEfficiency(emitter_input.hour))

\* C22: the regional carbon factor multiplies the CO2 estimate only.  For one
\* request, the energy is the base energy times the four shared factors
\* whatever the region, so estimates that differ only in region have equal
\* energy, and the CO2 is the base CO2 times the same four factors times the
\* factor of the region.
C22_RegionalFactorOnCo2Only ==
    /\ HasEmitterResult("estimate") =>
           /\ emitter_result[2].energy_wh
                  = FracTimes(BaseOf("energy_wh_per_1k_tokens"), FourFactors)
           /\ emitter_result[2].co2_grams
                  = FracTimes(FracTimes(BaseOf("co2_g_per_1k_tokens"), FourFactors),
                              RegionalCarbonIntensity(emitter_result[2].region))
    /\ GeminiRealCall =>
           /\ FracTimes(emitter_result[2].energy_kwh, FracOfInt(1000))
                  = FracTimes(BaseOf("energy_wh_per_1k_tokens"), FourFactors)
           /\ emitter_result[2].co2_grams
                  = FracTimes(FracTimes(BaseOf("co2_g_per_1k_tokens"), FourFactors),
                              RegionalCarbonIntensity(emitter_result[2].region))

\* An estimate in a region whose factor is not 1, with every other factor
\* above 1 as well.
C22_Witness ==
    /\ HasEmitterResult("estimate")
    /\ emitter_result[2].region = "europe-west1"
    /\ emitter_input.hour = 2
    /\ emitter_input.cpu_percent = 100
    /\ emitter_input.prompt.chars > 0
    /\ emitter_input.model = "gemini-1.5-pro"
    /\ emitter_result[2].co2_grams[1] > 0
    /\ emitter_result[2].co2_grams
           = FracTimes(FracTimes(BaseOf("co2_g_per_1k_tokens"), FourFactors), <<8, 10>>)

(***************************************************************************)
(* Properties of the confidence band and the accuracy score.               *)
(***************************************************************************)
\* The mean of the historical x values 0 .. n-1.
MeanX(n) == FracOver(FracOfInt(SumSeq([i \in 1..n |-> i - 1])), FracOfInt(n))

\* The sum over the historical x values of (x_i - mean(x))^2.
CentredSquares(n) ==
    FracSum([i \in 1..n |->
                FracTimes(FracMinus(FracOfInt(i - 1), MeanX(n)),
                          FracMinus(FracOfInt(i - 1), MeanX(n)))])

\* 1.96 * rmse * sqrt(1 + 1/n + (x - mean(x))^2 / sum of (x_i - mean(x))^2)
CentredMargin(rmse, n, x) ==
    FracTimes(FracTimes(<<196, 100>>, rmse),
              Sqrt(FracPlus(FracPlus(One, <<1, n>>),
                            FracOver(FracTimes(FracMinus(FracOfInt(x), MeanX(n)),
                                               FracMinus(FracOfInt(x), MeanX(n))),
                                     CentredSquares(n)))))

\* C23 (as claimed): the margin of the projected point at x = n + k is
\* 1.96 * rmse * sqrt(1 + 1/n + (x - mean(x))^2 / sum of (x_i - mean(x))^2),
\* centred on the mean of the historical x values, and the interval is
\* [max(0, projected - margin), projected + margin].
C23_MarginCentredOnMean ==
    (HasForecast /\ analytics_result.result.success) =>
        LET r == analytics_result.result
            n == Len(History)
        IN  \A k \in 1..Len(r.forecast_values) :
               LET margin == CentredMargin(r.rmse, n, n + (k - 1))
               IN  /\ r.confidence_intervals[k].lower
                          = FracMaxZero(FracMinus(r.forecast_values[k], margin))
                   /\ r.confidence_intervals[k].upper
                          = FracPlus(r.forecast_values[k], margin)

\* statistics.mean(historical_values) of a non-empty history
MeanOfHistory == FracNorm(<<SumSeq(History), Len(History)>>)

\* C24 (as claimed): for a history of length >= 2 whose mean is 0,
\* generate_forecast succeeds and reports an accuracy score of 0; for every
\* other history of length >= 2 the accuracy score is
\* max(0, 1 - rmse / mean(history)), which is never negative.
C24_ZeroMeanAccuracyIsZero ==
    (HasForecast /\ Len(History) >= 2) =>
        LET r == analytics_result.result
        IN  /\ r.success = TRUE
            /\ IF MeanOfHistory = Zero
               THEN r.accuracy_score = Zero
               ELSE /\ r.accuracy_score
                           = FracMaxZero(FracMinus(One, FracOver(r.rmse, MeanOfHistory)))
                    /\ FracLE(Zero, r.accuracy_score)

(***************************************************************************)
(* Properties of _linear_regression.                                       *)
(***************************************************************************)
HasRegression == analytics_result.op = "_linear_regression"

\* C25 (as claimed): when n * sum(x^2) - (sum x)^2 is zero, _linear_regression
\* returns slope = 0 and intercept = mean(y) instead of failing, and for
\* x = 0 .. n-1 with n >= 2 that denominator is not zero.
C25_RegressionDenominatorGuarded ==
    (HasRegression /\ Len(History) >= 2) =>
        LET x_values == analytics_result.result.x_values
            n == Len(x_values)
            denominator ==
                n * SumSeq([i \in 1..n |-> x_values[i] * x_values[i]])
                    - SumSeq(x_values) * SumSeq(x_values)
        IN  /\ denominator = 0 =>
                   analytics_result.result.outcome
                       = Returned(<<Zero, FracNorm(<<SumSeq(History), n>>)>>)
            /\ x_values = [i \in 1..n |-> i - 1] => denominator # 0

(***************************************************************************)
(* Properties of current_team_rank.                                        *)
(***************************************************************************)
\* C26 (as claimed): in every TeamLeaderboard returned by
\* get_team_leaderboard, current_team_rank is the rank of the entry of
\* current_team_id whenever that team has an entry in the returned list.
C26_CurrentTeamRankIsItsEntrysRank ==
    HasBoard =>
        \A i \in 1..Len(Entries) :
            Entries[i].name = board_args.current_team_id =>
                leaderboard.board.current_team_rank = Entries[i].rank

(***************************************************************************)
(* Properties of the row /api/v1/chat logs.                                *)
(***************************************************************************)
\* The value of a column of an inserted row, <<>> when the row has no such
\* column or holds None in it.
Column(row, name) ==
    IF name \notin DOMAIN row THEN <<>>
    ELSE IF name \in {"input_tokens", "output_tokens"} THEN row[name]
    ELSE <<row[name]>>

\* The stored token count of one kind, under the column name of either
\* implementation.
StoredTokens(row, kind) ==
    IF "tokens_" \o kind \in DOMAIN row THEN Column(row, "tokens_" \o kind)
    ELSE Column(row, kind \o "_tokens")

\* C27 (as claimed): for every successful /api/v1/chat request whose insert
\* goes through, the inserted ai_requests row holds the energy the emitter
\* computed (in Wh, 1000 times the emitted kWh), the emitted CO2 and the
\* emitted input and output token counts.
C27_LoggedRowHoldsEmittedValues ==
    [][\A impl \in Impls :
          (/\ LastEndpoint' = "chat"
           /\ pc' = pc
           /\ ai_requests'.count = ai_requests.count + 1
           /\ real_chat(impl, TRUE)) =>
              LET result == GeminiGenerateContent(emitter_input)
                  row == ai_requests'.last[1]
              IN  /\ Column(row, "energy_wh")
                         = <<FracTimes(result.energy_kwh, FracOfInt(1000))>>
                  /\ Column(row, "co2e_g") = <<result.co2_grams>>
                  /\ StoredTokens(row, "input") = <<result.tokens_used.input>>
                  /\ StoredTokens(row, "output") = <<result.tokens_used.output>>
      ]_vars

(***************************************************************************)
(* Properties of the model names in the Gemini result.                     *)
(***************************************************************************)
\* C28 (as claimed): on every path of generate_content (real call, demo mode
\* and failure) model_used is the model name the caller requested, so "auto"
\* stays "auto", and an actual_model reported for a request with model
\* "auto" is "gemini-2.5-flash-lite".
C28_ModelUsedIsRequestedModel ==
    HasEmitterResult("gemini") =>
        LET r == emitter_result[2]
        IN  /\ r.model_used = emitter_input.model
            /\ (emitter_input.model = "auto" /\ "actual_model" \in DOMAIN r) =>
                   r.actual_model = "gemini-2.5-flash-lite"

(***************************************************************************)
(* Properties of the model leaderboard.                                    *)
(***************************************************************************)
\* C29 (as claimed): get_model_leaderboard returns at most limit models
\* (for a limit >= 0), each model name at most once, ordered by
\* non-increasing efficiency_score, and total_requests is the number of rows
\* fetched.
C29_ModelLeaderboardShape ==
    (Called("get_model_leaderboard") /\ ~IsNone(store_result.value)) =>
        LET models == store_result.value.models
        IN  /\ board_args.limit >= 0 => Len(models) <= board_args.limit
            /\ \A i \in 1..Len(models) : \A j \in 1..Len(models) :
                  i < j =>
                     /\ models[i].model_name # models[j].model_name
                     /\ FracLE(models[j].efficiency_score, models[i].efficiency_score)
            /\ store_result.value.total_requests = Len(usage_rows)

\* C30: in every summary get_performance_summary returns without an error,
\* min_ms <= median_ms <= p95_ms <= max_ms, and total_requests is the number
\* of buffered records that pass the window and model filters, which is at
\* least 1 and at most the number of buffered records.
C30_LatencyStatsOrdered ==
    HasSummary =>
        LET stats == response.latency_stats
        IN  /\ FracLE(FracOfInt(stats.min_ms), stats.median_ms)
            /\ FracLE(stats.median_ms, FracOfInt(stats.p95_ms))
            /\ stats.p95_ms <= stats.max_ms
            /\ response.total_requests = Cardinality(Passing(request))
            /\ response.total_requests >= 1
            /\ response.total_requests <= Len(metrics_history)

\* A summary under a model filter that leaves some records out, with the
\* median strictly between the minimum and the maximum.
C30_Witness ==
    /\ HasSummary
    /\ request.model # NoModel
    /\ response.total_requests < Len(metrics_history)
    /\ response.total_requests >= 2
    /\ ~FracLE(response.latency_stats.median_ms, FracOfInt(response.latency_stats.min_ms))
    /\ ~FracLE(FracOfInt(response.latency_stats.max_ms), response.latency_stats.median_ms)

====
